---- MODULE Spec2Model ----
(***************************************************************************)
(* Model of the back-testing engine of the stock_analysis repository:      *)
(* run_backtest and the grid search of src/src/analyzers/_test_2years.py.  *)
(*                                                                         *)
(* Numbers.  Python floats are modelled as exact reals.  A price or a      *)
(* score is a record [nan, val]; an amount of money or shares is a record  *)
(* [nan, n, d, k] standing for (n / d) * (1 - FEE_RATE)^k, with n / d in   *)
(* lowest terms and d > 0.  NaN is the record whose nan field is TRUE.     *)
(*                                                                         *)
(* Data.  The price frame of a security is read row by row, and the state  *)
(* keeps the part of it the simulation can still read: scores holds the    *)
(* tech_score column at dates[i-1] and dates[i], today the date and the    *)
(* open of dates[i] (the last row read); nrows counts the rows read.       *)
(***************************************************************************)
EXTENDS Integers, Sequences, FiniteSets, TLC

VARIABLES
    FEE_RATE,      \* module global FEE_RATE, in units of 1/1000
    tech_entry,    \* argument of run_backtest
    tech_exit,     \* argument of run_backtest
    fscore,        \* fin.get_financial_score(ticker)
    pc,            \* position of run_backtest: "call", "loop", "done"
    scores,        \* df['tech_score'] at dates[i-1] and dates[i]
    today,         \* [date, open] of dates[i], the last row read
    nrows,         \* number of rows of the frame read so far
    cash,          \* local cash
    pos,           \* local pos (shares held)
    buy_dt,        \* local buy_dt (date of the last entry), None if None
    results,       \* local results: the profits appended so far
    branch,        \* history: the branch the last loop iteration took
    fills,         \* history: the trades executed, in order
    lastValid,     \* history: the last valid open price read so far
    \* a second run of the simulation on the same opens and dates, whose
    \* tech_score column may differ
    scores2,       \* df['tech_score'] of the second run
    locals2,       \* [cash, pos, buy_dt] of the second run
    \* the grid search of __main__
    gpc,           \* position of __main__: "industries", "pairs", "done"
    nind,          \* len(industries)
    ind,           \* index of the industry being processed
    best,          \* best = {'entry', 'exit', 'win_rate'}
    run_count,     \* run_count
    total_count,   \* total_count
    summary,       \* summary: one row per industry processed
    call,          \* history: the pair passed to the last run_backtest
    hiSeen,        \* history: highest return seen this industry, NaN if none
    hiFirst,       \* history: the first pair that returned hiSeen
    \* run_backtest over the securities of an industry
    rpc,           \* position of run_backtest: "tickers", "returned"
    tleft,         \* securities of sample_tickers not yet processed
    ret,           \* the value run_backtest returned, in 1/100 percent
    nshort,        \* history: securities read with fewer than MIN_BARS bars
    nfull,         \* history: securities read with at least MIN_BARS bars
    \* the analyzers run on the price history of one security
    bars,          \* the price history stored for the security
    tout,          \* the analyzer called and what it returned
    \* the grid search run twice on one database
    data,          \* the sample securities the database holds per industry
    pass,          \* which run of the script is under way: 1 or 2
    summary1,      \* history: the summary of the first run
    \* ThemeTracker
    keyword_map,   \* ThemeTracker.keyword_map
    bonus,         \* the last call of get_bonus and what it returned
    \* FinancialAnalyzer (aa.py)
    fin_db,        \* the rows the database holds for the stock
    stock_info,    \* FinancialAnalyzer.stock_info
    industry_per,  \* FinancialAnalyzer.industry_per
    fin_call,      \* the call of get_financial_score and its outcome
    \* TPExInstitutionalDownloader.download
    dl_pc,         \* position of download: "loop", "except", "returned", "raised"
    dl_i,          \* iterations of the retry loop that are over
    dl_log,        \* history: the response to every request made
    dl_ret,        \* what download returned or raised
    \* MainWindow of the GUI
    btn_fetch,     \* whether the fetch button is enabled
    edit_date,     \* the text of the start date field
    workers,       \* the threads started for fetch_all_task, in order
    timers         \* QTimer.singleShot callbacks the event loop has not run yet

simVars == <<FEE_RATE, tech_entry, tech_exit, fscore, pc, scores, today,
             nrows, cash, pos, buy_dt, results>>

histVars == <<branch, fills, lastValid>>

twinVars == <<scores2, locals2>>

gridVars == <<gpc, nind, ind, best, run_count, total_count, summary, call,
              hiSeen, hiFirst>>

runVars == <<rpc, tleft, ret, nshort, nfull>>

\* the variables of the parts added to the back-testing engine
anaVars == <<bars, tout>>

\* the variables of the two runs of the grid search
twiceVars == <<data, pass, summary1>>

themeVars == <<keyword_map, bonus>>

finVars == <<fin_db, stock_info, industry_per, fin_call>>

dlVars == <<dl_pc, dl_i, dl_log, dl_ret>>

guiVars == <<btn_fetch, edit_date, workers, timers>>

extVars == <<twiceVars, themeVars, finVars, dlVars, guiVars>>

restVars == <<runVars, anaVars, extVars>>

vars == <<simVars, histVars, twinVars, gridVars, restVars>>

----------------------------------------------------------------------------
(* Program constants *)

INITIAL_CAPITAL_PER_STK == 20000
FEE_RATE_DEFAULT == 3
MAX_HOLD_DAYS == 120
FIN_ENTRY_THRESHOLD == 70
FIN_EXIT_THRESHOLD == 50
\* BACKTEST_END_DATE - BACKTEST_START_DATE in days: the query's date range
BACKTEST_SPAN_DAYS == 730

\* the grid: range(40, 81, 5) and range(20, tech_entry, 5)
ENTRY_START == 40
ENTRY_STOP == 81
EXIT_START == 20
GRID_STEP == 5
\* best['win_rate'] before the first pair
WORST_WIN_RATE == -999

(* Bounds *)

MaxRows == 4
MaxIndustries == 1

(* Input domains *)

NaN == [nan |-> TRUE, val |-> 0]
Num(v) == [nan |-> FALSE, val |-> v]
\* Python's None, where the code holds a date or a threshold
None == -1

\* open prices a stored row may hold: missing/NaN, negative, zero, positive
Opens == {NaN, Num(-10), Num(0), Num(10), Num(20)}
\* a float holding the whole number v: floats that take part in divisions
\* are records [nan, n, d] for n / d, with d = 0 for an infinity of sign n
Whole(v) == [nan |-> FALSE, n |-> v, d |-> 1]
\* per-day technical scores
Scores == {Whole(10), Whole(50), Whole(90)}
\* calendar days between two consecutive rows of the frame
Gaps == {1, 120}
\* arguments a caller may pass to run_backtest
TechEntryArgs == {40, 60}
TechExitArgs == {20, 60}
\* financial scores
FScores == {0, 50, 70}
\* values of the module global FEE_RATE, in units of 1/1000
FeeRates == {0, 3}
\* values run_backtest returns: NaN when a profit is NaN, else a number
\* (0.0 when no security was simulated)
WinRates == {NaN, Num(0), Num(5)}

NoRow == [date |-> None, open |-> NaN]

----------------------------------------------------------------------------
(* Exact arithmetic on amounts *)

Abs(x) == IF x < 0 THEN -x ELSE x

RECURSIVE GCD(_, _)
GCD(a, b) == IF b = 0 THEN a ELSE GCD(b, a % b)

\* the amount n / d, in lowest terms with the sign on n
Amt(n, d) ==
    LET sn == IF d < 0 THEN -n ELSE n
        sd == Abs(d)
        g == GCD(Abs(sn), sd)
    IN  [nan |-> FALSE, n |-> sn \div g, d |-> sd \div g, k |-> 0]

NaNAmt == [nan |-> TRUE, n |-> 0, d |-> 1, k |-> 0]
Zero == Amt(0, 1)

\* a * (1 - FEE_RATE)
TimesNetOfFee(a) == IF a.nan THEN a ELSE [a EXCEPT !.k = @ + 1]

\* a / price, price a positive number
DivBy(a, p) ==
    IF a.nan THEN a ELSE [Amt(a.n, a.d * p) EXCEPT !.k = a.k]

\* a * price, price a record [nan, val]
TimesPrice(a, price) ==
    IF a.nan \/ price.nan THEN NaNAmt
    ELSE [Amt(a.n * price.val, a.d) EXCEPT !.k = a.k]

IsZero(a) == ~a.nan /\ a.n = 0
IsPos(a) == ~a.nan /\ a.n > 0

----------------------------------------------------------------------------
(* Exact arithmetic on floats [nan, n, d], with the IEEE rules for NaN,    *)
(* infinities and division by zero that numpy and pandas apply             *)

Sgn(x) == IF x > 0 THEN 1 ELSE IF x < 0 THEN -1 ELSE 0

\* the float n / d, d # 0, in lowest terms with the sign on n
Flt(n, d) ==
    LET a == Amt(n, d)
    IN  [nan |-> FALSE, n |-> a.n, d |-> a.d]

FNaN == [nan |-> TRUE, n |-> 0, d |-> 1]
FInf(sign) == [nan |-> FALSE, n |-> sign, d |-> 0]

IsInf(a) == ~a.nan /\ a.d = 0

FNeg(a) == IF a.nan THEN a ELSE [a EXCEPT !.n = -@]

FAdd(a, b) ==
    IF a.nan \/ b.nan THEN FNaN
    ELSE IF a.d = 0 /\ b.d = 0 THEN (IF a.n = b.n THEN a ELSE FNaN)
    ELSE IF a.d = 0 THEN a
    ELSE IF b.d = 0 THEN b
    ELSE LET g == GCD(a.d, b.d)
         IN  Flt(a.n * (b.d \div g) + b.n * (a.d \div g),
                 (a.d \div g) * b.d)

FSub(a, b) == FAdd(a, FNeg(b))

FMul(a, b) ==
    IF a.nan \/ b.nan THEN FNaN
    ELSE IF a.d = 0 \/ b.d = 0
         THEN (IF a.n = 0 \/ b.n = 0 THEN FNaN
               ELSE FInf(Sgn(a.n) * Sgn(b.n)))
    ELSE LET g == GCD(Abs(a.n), b.d)
             h == GCD(Abs(b.n), a.d)
         IN  Flt((a.n \div g) * (b.n \div h), (a.d \div h) * (b.d \div g))

FDiv(a, b) ==
    IF a.nan \/ b.nan THEN FNaN
    ELSE IF b.d = 0 THEN (IF a.d = 0 THEN FNaN ELSE Whole(0))
    ELSE IF b.n = 0 THEN (IF a.n = 0 THEN FNaN ELSE FInf(Sgn(a.n)))
    ELSE IF a.d = 0 THEN FInf(Sgn(a.n) * Sgn(b.n))
    ELSE FMul(a, Flt(b.d, b.n))

\* a <= b, false when either is NaN
FLe(a, b) ==
    /\ ~a.nan
    /\ ~b.nan
    /\ IF a.d = 0 /\ b.d = 0 THEN a.n <= b.n
       ELSE IF a.d = 0 THEN a.n < 0
       ELSE IF b.d = 0 THEN b.n > 0
       ELSE LET g == GCD(a.d, b.d)
            IN  a.n * (b.d \div g) <= b.n * (a.d \div g)

FGe(a, b) == FLe(b, a)
FLt(a, b) == ~a.nan /\ ~b.nan /\ ~FLe(b, a)
FGt(a, b) == FLt(b, a)

----------------------------------------------------------------------------
(* run_backtest: signals and the trade simulation of one security *)

\* pd.isna(price) or price <= 0 is false
ValidPrice(price) == ~price.nan /\ price.val > 0

\* mutant: the financial score takes no part in the entry
Entry_TechOnly(score, te, fs) == FGe(score, Whole(te))

\* mutant: the entry threshold of the financial score is the exit threshold
Entry_ExitThreshold(score, te, fs) ==
    /\ FGe(score, Whole(te))
    /\ (fs <= 0 \/ fs >= FIN_EXIT_THRESHOLD)

\* df['entry'] of a row
Entry(score, te, fs) ==
    /\ FGe(score, Whole(te))
    /\ (fs <= 0 \/ fs >= FIN_ENTRY_THRESHOLD)

\* df['exit'] of a row
Exit(score, tx, fs) ==
    \/ FLe(score, Whole(tx))
    \/ (fs > 0 /\ fs <= FIN_EXIT_THRESHOLD)

\* mutant: the entry pays no fee
BuyShares_NoFee(c, price) == DivBy(c, price.val)

\* pos = cash * (1 - FEE_RATE) / price
BuyShares(c, price) == DivBy(TimesNetOfFee(c), price.val)

\* cash = pos * price * (1 - FEE_RATE)
SellShares(p, price) == TimesNetOfFee(TimesPrice(p, price))

\* mutant: the holding period is compared with > instead of >=
HeldTooLong_Strict(todayRow, bought) ==
    todayRow.date - bought > MAX_HOLD_DAYS

\* (today - buy_dt).days >= MAX_HOLD_DAYS
HeldTooLong(todayRow, bought) == todayRow.date - bought >= MAX_HOLD_DAYS

\* mutant: an entry signal buys again while a position is open
Branch_Pyramid(s, sc, todayRow, te, tx, fs) ==
    IF ~ValidPrice(todayRow.open) THEN "skip"
    ELSE IF Entry(sc[1], te, fs) THEN "buy"
    ELSE IF IsPos(s.pos)
            /\ (Exit(sc[1], tx, fs) \/ HeldTooLong(todayRow, s.buy_dt))
         THEN "sell"
    ELSE "hold"

\* mutant: the entry is decided on today's score (look-ahead)
Branch_LookAhead(s, sc, todayRow, te, tx, fs) ==
    IF ~ValidPrice(todayRow.open) THEN "skip"
    ELSE IF IsZero(s.pos) /\ Entry(sc[2], te, fs) THEN "buy"
    ELSE IF IsPos(s.pos)
            /\ (Exit(sc[1], tx, fs) \/ HeldTooLong(todayRow, s.buy_dt))
         THEN "sell"
    ELSE "hold"

\* mutant: the exit signal is ignored, only the holding period sells
Branch_NoSignalExit(s, sc, todayRow, te, tx, fs) ==
    IF ~ValidPrice(todayRow.open) THEN "skip"
    ELSE IF IsZero(s.pos) /\ Entry(sc[1], te, fs) THEN "buy"
    ELSE IF IsPos(s.pos) /\ HeldTooLong(todayRow, s.buy_dt) THEN "sell"
    ELSE "hold"

\* mutant: only a missing price is skipped, a price <= 0 is traded
Branch_SkipOnlyNaN(s, sc, todayRow, te, tx, fs) ==
    IF todayRow.open.nan THEN "skip"
    ELSE IF IsZero(s.pos) /\ Entry(sc[1], te, fs) THEN "buy"
    ELSE IF IsPos(s.pos)
            /\ (Exit(sc[1], tx, fs) \/ HeldTooLong(todayRow, s.buy_dt))
         THEN "sell"
    ELSE "hold"

\* which branch one iteration of the simulation loop takes; sc holds the
\* tech_score at prev (sc[1]) and at today (sc[2])
Branch(s, sc, todayRow, te, tx, fs) ==
    IF ~ValidPrice(todayRow.open) THEN "skip"
    ELSE IF IsZero(s.pos) /\ Entry(sc[1], te, fs) THEN "buy"
    ELSE IF IsPos(s.pos)
            /\ (Exit(sc[1], tx, fs) \/ HeldTooLong(todayRow, s.buy_dt))
         THEN "sell"
    ELSE "hold"

\* one iteration of the simulation loop on the locals s = [cash, pos, buy_dt]
LoopBody(s, sc, todayRow, te, tx, fs) ==
    LET b == Branch(s, sc, todayRow, te, tx, fs)
    IN  CASE b = "buy" ->
               [cash |-> Zero,
                pos |-> BuyShares(s.cash, todayRow.open),
                buy_dt |-> todayRow.date]
          [] b = "sell" ->
               [cash |-> SellShares(s.pos, todayRow.open),
                pos |-> Zero,
                buy_dt |-> s.buy_dt]
          [] OTHER -> s

\* the price the closing liquidation uses: df['open'].iloc[-1]
LastPrice(lastRow) == lastRow.open

\* cash after the loop: an open position is sold at last_price
FinalCash(s, lastRow) ==
    IF IsPos(s.pos) THEN SellShares(s.pos, LastPrice(lastRow)) ELSE s.cash

\* profit, kept as the ratio cash / INITIAL_CAPITAL_PER_STK:
\* profit in percent = (ratio - 1) * 100
Profit(c) ==
    IF c.nan THEN NaNAmt
    ELSE [Amt(c.n, c.d * INITIAL_CAPITAL_PER_STK) EXCEPT !.k = c.k]

\* tech_score at dates[i-1] and at dates[i]
prevScore == scores[Len(scores) - 1]
todayScore == scores[Len(scores)]
locals == [cash |-> cash, pos |-> pos, buy_dt |-> buy_dt]

InitLocals ==
    /\ pc = "call"
    /\ scores = <<>>
    /\ today = NoRow
    /\ nrows = 0
    /\ cash = Amt(INITIAL_CAPITAL_PER_STK, 1)
    /\ pos = Zero
    /\ buy_dt = None
    /\ results = <<>>
    /\ branch = "none"
    /\ fills = <<>>
    /\ lastValid = NaN

\* run_backtest(tech_entry, tech_exit, industry) called for one security
InitSim ==
    /\ tech_entry \in TechEntryArgs
    /\ tech_exit \in TechExitArgs
    /\ fscore \in FScores
    /\ InitLocals

InitTwin ==
    /\ scores2 = <<>>
    /\ locals2 = locals

NoPair == <<None, None>>

InitGrid ==
    /\ gpc = "industries"
    /\ nind = 0
    /\ ind = 0
    /\ best = [entry |-> None, exit |-> None, win_rate |-> NaN]
    /\ run_count = 0
    /\ total_count = 0
    /\ summary = <<>>
    /\ call = NoPair
    /\ hiSeen = NaN
    /\ hiFirst = NoPair

\* the loop over the securities is not part of the run
IdleRun ==
    /\ rpc = "none"
    /\ tleft = 0
    /\ ret = NaN
    /\ nshort = 0
    /\ nfull = 0

NoBars == [n |-> 0]
NoCall == [fn |-> "none"]

\* no analyzer is part of the run
IdleAna ==
    /\ bars = NoBars
    /\ tout = NoCall

\* the script is run once
IdleTwice ==
    /\ data = <<>>
    /\ pass = 0
    /\ summary1 = <<>>

IdleTheme ==
    /\ keyword_map = <<>>
    /\ bonus = NoCall

IdleFin ==
    /\ fin_db = <<>>
    /\ stock_info = <<>>
    /\ industry_per = <<>>
    /\ fin_call = NoCall

IdleDl ==
    /\ dl_pc = "none"
    /\ dl_i = 0
    /\ dl_log = <<>>
    /\ dl_ret = NoCall

IdleGui ==
    /\ btn_fetch = FALSE
    /\ edit_date = <<>>
    /\ workers = <<>>
    /\ timers = 0

IdleExt == IdleTwice /\ IdleTheme /\ IdleFin /\ IdleDl /\ IdleGui

IdleRest == IdleRun /\ IdleAna /\ IdleExt

\* run_backtest called with the module as the source leaves it
Init ==
    /\ FEE_RATE = FEE_RATE_DEFAULT
    /\ InitSim
    /\ InitTwin
    /\ InitGrid
    /\ IdleRest

\* the frame of the security is read: it is empty (the security is skipped)
\* or its first row, with open o and tech_score sc, is there
ReadFrameStep(empty, o, sc) ==
    /\ pc = "call"
    /\ IF empty
       THEN /\ pc' = "done"
            /\ UNCHANGED <<scores, today, nrows>>
       ELSE /\ scores' = <<sc>>
            /\ today' = [date |-> 0, open |-> o]
            /\ nrows' = 1
            /\ pc' = "loop"
    /\ UNCHANGED <<FEE_RATE, tech_entry, tech_exit, fscore, cash, pos,
                   buy_dt, results>>

ReadFrameHist(empty, o) ==
    /\ lastValid' = IF ~empty /\ ValidPrice(o) THEN o ELSE lastValid
    /\ UNCHANGED <<branch, fills>>

\* one iteration of `for i in range(1, len(dates))`: the row of dates[i]
\* lies g days after dates[i-1] and holds open o and tech_score sc
DayStep(g, o, sc) ==
    LET row == [date |-> today.date + g, open |-> o]
        win == <<todayScore, sc>>
        s == LoopBody(locals, win, row, tech_entry, tech_exit, fscore)
    IN  /\ pc = "loop"
        /\ nrows < MaxRows
        /\ row.date <= BACKTEST_SPAN_DAYS
        /\ scores' = win
        /\ today' = row
        /\ nrows' = nrows + 1
        /\ cash' = s.cash
        /\ pos' = s.pos
        /\ buy_dt' = s.buy_dt
        /\ UNCHANGED <<FEE_RATE, tech_entry, tech_exit, fscore, pc, results>>

DayHist(g, o, sc) ==
    LET row == [date |-> today.date + g, open |-> o]
        b == Branch(locals, <<todayScore, sc>>, row, tech_entry, tech_exit,
                    fscore)
    IN  /\ branch' = b
        /\ fills' = IF b \in {"buy", "sell"}
                    THEN Append(fills, [side |-> b, price |-> o])
                    ELSE fills
        /\ lastValid' = IF ValidPrice(o) THEN o ELSE lastValid

\* the loop is over: closing liquidation, profit, results.append(profit)
FinishStep ==
    /\ pc = "loop"
    /\ cash' = FinalCash(locals, today)
    /\ results' = Append(results, Profit(cash'))
    /\ pc' = "done"
    /\ UNCHANGED <<FEE_RATE, tech_entry, tech_exit, fscore, scores, today,
                   nrows, pos, buy_dt>>

FinishHist ==
    /\ fills' = IF IsPos(pos)
                THEN Append(fills, [side |-> "final",
                                    price |-> LastPrice(today)])
                ELSE fills
    /\ UNCHANGED <<branch, lastValid>>

ReadFrame ==
    /\ \E empty \in BOOLEAN, o \in Opens, sc \in Scores :
         ReadFrameStep(empty, o, sc) /\ ReadFrameHist(empty, o)
    /\ UNCHANGED <<twinVars, gridVars, restVars>>

Day ==
    /\ \E g \in Gaps, o \in Opens, sc \in Scores :
         DayStep(g, o, sc) /\ DayHist(g, o, sc)
    /\ UNCHANGED <<twinVars, gridVars, restVars>>

Finish ==
    /\ FinishStep
    /\ FinishHist
    /\ UNCHANGED <<twinVars, gridVars, restVars>>

Next == ReadFrame \/ Day \/ Finish

Spec == Init /\ [][Next]_vars

\* run_backtest called after the caller has set the module global FEE_RATE
InitFee ==
    /\ FEE_RATE \in FeeRates
    /\ InitSim
    /\ InitTwin
    /\ InitGrid
    /\ IdleRest

SpecFee == InitFee /\ [][Next]_vars

----------------------------------------------------------------------------
(* Two runs of the simulation on the same opens and dates.  The second run *)
(* has its own tech_score column; it goes on to the next day only while    *)
(* the two columns agree at every row read so far, so in every state the   *)
(* columns agree at all rows before today and may differ at today.         *)

\* the second run reads the same first row with its own tech_score
ReadFrame2 ==
    /\ \E empty \in BOOLEAN, o \in Opens, sc \in Scores, sc2 \in Scores :
         /\ ReadFrameStep(empty, o, sc)
         /\ scores2' = IF empty THEN scores2 ELSE <<sc2>>
    /\ UNCHANGED <<locals2, histVars, gridVars, restVars>>

\* both runs process the same day
Day2 ==
    /\ pc = "loop"
    /\ scores2[Len(scores2)] = todayScore
    /\ \E g \in Gaps, o \in Opens, sc \in Scores, sc2 \in Scores :
         LET win2 == <<scores2[Len(scores2)], sc2>>
         IN  /\ DayStep(g, o, sc)
             /\ scores2' = win2
             /\ locals2' = LoopBody(locals2, win2, today', tech_entry,
                                    tech_exit, fscore)
    /\ UNCHANGED <<histVars, gridVars, restVars>>

Finish2 ==
    /\ FinishStep
    /\ locals2' = [locals2 EXCEPT !.cash = FinalCash(locals2, today)]
    /\ UNCHANGED <<scores2, histVars, gridVars, restVars>>

NextTwin == ReadFrame2 \/ Day2 \/ Finish2

SpecTwin == Init /\ [][NextTwin]_vars

----------------------------------------------------------------------------
(* Properties of the trade simulation *)

\* the last loop iteration read a new row
DayTaken == pc = "loop" /\ pc' = "loop" /\ nrows' = nrows + 1

Flat == IsZero(pos) /\ IsPos(cash)
Holding == IsPos(pos) /\ IsZero(cash)

C1_FlatOrHolding == pc = "loop" => (Flat \/ Holding)

C1_EntryStep ==
    (DayTaken /\ IsPos(pos') /\ pos' # pos) =>
        /\ IsZero(pos)
        /\ pos' = DivBy(TimesNetOfFee(cash), today'.open.val)
        /\ IsZero(cash')

\* C1: after every processed day the simulation is Flat (shares = 0,
\* cash > 0) or Holding (shares > 0, cash = 0); shares only increase from
\* zero (no pyramiding), are never negative, and an entry spends all cash.
C1_Theorem == [](C1_FlatOrHolding) /\ [][C1_EntryStep]_vars

\* a day with a valid open and an entry signal was processed while a
\* position was open, and the position is the one bought earlier
C1_Witness ==
    /\ pc = "loop"
    /\ Holding
    /\ branch = "hold"
    /\ buy_dt < today.date
    /\ ValidPrice(today.open)
    /\ Entry(prevScore, tech_entry, fscore)

C2_EntryStep ==
    (DayTaken /\ IsZero(pos) /\ IsPos(pos')) =>
        /\ Entry(todayScore, tech_entry, fscore)
        /\ ValidPrice(today'.open)
        /\ pos' = DivBy(TimesNetOfFee(cash), today'.open.val)
        /\ buy_dt' = today'.date

\* two runs on the same opens whose score columns agree before today are
\* in the same state after today, whatever today's scores are
C2_SameDecision == pc = "loop" => locals2 = locals

\* C2: an entry on day i happens only when the entry predicate was true on
\* day i-1, at day i's open with the fee deducted, and does not depend on
\* the score of day i.
C2_Theorem == [](C2_SameDecision) /\ [][C2_EntryStep]_vars

\* both runs bought today although today's scores give different signals
C2_Witness ==
    /\ pc = "loop"
    /\ nrows >= 2
    /\ IsPos(pos)
    /\ buy_dt = today.date
    /\ Entry(todayScore, tech_entry, fscore)
    /\ ~Entry(scores2[Len(scores2)], tech_entry, fscore)

ExitDue ==
    \/ Exit(todayScore, tech_exit, fscore)
    \/ today'.date - buy_dt >= MAX_HOLD_DAYS

\* C3 as stated: while Holding, an exit on day i happens if and only if the
\* exit predicate was true on day i-1 or the holding duration has reached
\* max_hold_days.
C3_Original == [][(DayTaken /\ IsPos(pos)) => (IsZero(pos') <=> ExitDue)]_vars

C3_ExitStep ==
    (DayTaken /\ IsPos(pos)) =>
        /\ IsZero(pos') <=> (ValidPrice(today'.open) /\ ExitDue)
        /\ IsZero(pos') =>
             cash' = TimesNetOfFee(TimesPrice(pos, today'.open))
        /\ ~IsZero(pos') => (cash' = cash /\ pos' = pos /\ buy_dt' = buy_dt)

\* C3 amended: while Holding, on a day whose open is valid an exit happens
\* if and only if the exit predicate was true the day before or the
\* calendar days since the entry date are >= MAX_HOLD_DAYS; it executes at
\* that day's open net of the fee; on any other day nothing changes.
C3_Amended == [][C3_ExitStep]_vars

\* an exit by signal before the holding period is over
C3_Witness ==
    /\ pc = "loop"
    /\ branch = "sell"
    /\ Flat
    /\ Exit(prevScore, tech_exit, fscore)
    /\ today.date - buy_dt < MAX_HOLD_DAYS

\* C4 as stated: no position stays open past its N-th holding day.
C4_Original ==
    (pc = "loop" /\ IsPos(pos)) => today.date - buy_dt < MAX_HOLD_DAYS

C4_NotOverdue ==
    (pc = "loop" /\ IsPos(pos) /\ ValidPrice(today.open)) =>
        today.date - buy_dt < MAX_HOLD_DAYS

C4_ForcedStep ==
    (/\ DayTaken
     /\ IsPos(pos)
     /\ ValidPrice(today'.open)
     /\ today'.date - buy_dt >= MAX_HOLD_DAYS) =>
        /\ IsZero(pos')
        /\ cash' = TimesNetOfFee(TimesPrice(pos, today'.open))

\* C4 amended: a position is liquidated on the first processed day with a
\* valid open that lies MAX_HOLD_DAYS or more calendar days after the entry
\* date, exit signal or not; no position is open after such a day.
C4_Amended == [](C4_NotOverdue) /\ [][C4_ForcedStep]_vars

\* a liquidation exactly MAX_HOLD_DAYS after the entry, without exit signal
C4_Witness ==
    /\ pc = "loop"
    /\ branch = "sell"
    /\ Flat
    /\ ~Exit(prevScore, tech_exit, fscore)
    /\ today.date - buy_dt = MAX_HOLD_DAYS

LastFill == fills[Len(fills)]

\* C5: the closing liquidation uses the last valid open price, and the
\* profit of the run is a number.
C5_Claim ==
    (pc = "done" /\ Len(results) > 0) =>
        /\ ~results[1].nan
        /\ (Len(fills) > 0 /\ LastFill.side = "final") =>
              (ValidPrice(LastFill.price) /\ LastFill.price = lastValid)

\* C6: a day whose open is missing, NaN, zero or negative changes neither
\* cash nor shares nor the entry date, and the loop goes on.
C6_Theorem ==
    [][(pc = "loop" /\ nrows' = nrows + 1 /\ ~ValidPrice(today'.open)) =>
          /\ cash' = cash
          /\ pos' = pos
          /\ buy_dt' = buy_dt
          /\ pc' = "loop"]_vars

\* a day with an invalid open was skipped while a position was open, the
\* exit signal was set and the holding period was over
C6_Witness ==
    /\ pc = "loop"
    /\ branch = "skip"
    /\ Holding
    /\ ~ValidPrice(today.open)
    /\ Exit(prevScore, tech_exit, fscore)
    /\ today.date - buy_dt >= MAX_HOLD_DAYS

RECURSIVE Pow(_, _)
Pow(b, e) == IF e = 0 THEN 1 ELSE b * Pow(b, e - 1)

\* profit in millionths of a percent, for a ratio with k <= 2
PercentE6(r) ==
    ((r.n * Pow(1000 - FEE_RATE, r.k) * Pow(1000, 2 - r.k) - r.d * 1000000)
       * 100) \div r.d

\* one entry and one exit, both at the same price
RoundTrip ==
    /\ pc = "done"
    /\ Len(fills) = 2
    /\ fills[1].side = "buy"
    /\ fills[2].side \in {"sell", "final"}
    /\ fills[2].price = fills[1].price

\* C7: a round trip at one price returns 0% when FEE_RATE = 0 and
\* -2f*100 percent up to f*f*100 when FEE_RATE = f > 0.
C7_Theorem ==
    RoundTrip =>
        /\ results[1] = [nan |-> FALSE, n |-> 1, d |-> 1, k |-> 2]
        /\ FEE_RATE = 0 => PercentE6(results[1]) = 0
        /\ PercentE6(results[1]) + 2 * FEE_RATE * 100000
             = FEE_RATE * FEE_RATE * 100

C7_Witness == RoundTrip /\ fills[2].side = "sell" /\ FEE_RATE > 0

\* C10: run_backtest simulates no day under tech_entry <= tech_exit.
C10_Claim == pc = "loop" => tech_entry > tech_exit

----------------------------------------------------------------------------
(* __main__: the grid search over (tech_entry, tech_exit) per industry *)

\* len(range(start, stop, step))
RangeLen(start, stop, step) ==
    IF stop <= start THEN 0 ELSE (stop - start + step - 1) \div step

\* range(start, stop, step), as a sequence
Range(start, stop, step) ==
    [j \in 1..RangeLen(start, stop, step) |-> start + (j - 1) * step]

EntryRange == Range(ENTRY_START, ENTRY_STOP, GRID_STEP)

\* mutant: the exit range includes tech_entry itself
ExitRange_Inclusive(e) == Range(EXIT_START, e + 1, GRID_STEP)

ExitRange(e) == Range(EXIT_START, e, GRID_STEP)

RECURSIVE SumLens(_, _)
SumLens(es, j) ==
    IF j > Len(es) THEN 0 ELSE Len(ExitRange(es[j])) + SumLens(es, j + 1)

\* sum(len(range(20, e, 5)) for e in range(40, 81, 5))
TotalCount == SumLens(EntryRange, 1)

\* the first entry of EntryRange from index j on whose exit range is not
\* empty, with its first exit; NoPair when the loops are over
RECURSIVE FirstPairFrom(_)
FirstPairFrom(j) ==
    IF j > Len(EntryRange) THEN NoPair
    ELSE IF Len(ExitRange(EntryRange[j])) > 0
         THEN <<EntryRange[j], ExitRange(EntryRange[j])[1]>>
         ELSE FirstPairFrom(j + 1)

IndexIn(seq, v) == CHOOSE j \in 1..Len(seq) : seq[j] = v

\* the pair the nested for loops take after (e, x)
NextPair(e, x) ==
    LET xs == ExitRange(e)
        jx == IndexIn(xs, x)
    IN  IF jx < Len(xs) THEN <<e, xs[jx + 1]>>
        ELSE FirstPairFrom(IndexIn(EntryRange, e) + 1)

\* a > b on floats: false when either is NaN
Greater(a, b) == ~a.nan /\ ~b.nan /\ a.val > b.val

\* if win_rate > best['win_rate']: best.update(...)
UpdateBest(b, e, x, w) ==
    IF Greater(w, b.win_rate)
    THEN [entry |-> e, exit |-> x, win_rate |-> w]
    ELSE b

\* the row appended to summary for an industry
SummaryRow(b) == [entry |-> b.entry, exit |-> b.exit, win_rate |-> b.win_rate]

InitMain ==
    /\ FEE_RATE = FEE_RATE_DEFAULT
    /\ tech_entry = None
    /\ tech_exit = None
    /\ fscore = 0
    /\ InitLocals
    /\ InitTwin
    /\ gpc = "industries"
    /\ nind \in 0..MaxIndustries
    /\ ind = 0
    /\ best = [entry |-> None, exit |-> None, win_rate |-> NaN]
    /\ run_count = 0
    /\ total_count = 0
    /\ summary = <<>>
    /\ call = NoPair
    /\ hiSeen = NaN
    /\ hiFirst = NoPair
    /\ IdleRest

\* `for industry in industries`: the head of the body, up to the loops
BeginIndustry ==
    /\ gpc = "industries"
    /\ ind < nind
    /\ ind' = ind + 1
    /\ best' = [entry |-> None, exit |-> None,
                win_rate |-> Num(WORST_WIN_RATE)]
    /\ run_count' = 0
    /\ total_count' = TotalCount
    /\ call' = NoPair
    /\ hiSeen' = NaN
    /\ hiFirst' = NoPair
    /\ LET first == FirstPairFrom(1)
       IN  /\ tech_entry' = first[1]
           /\ tech_exit' = first[2]
           /\ gpc' = IF first = NoPair THEN "summary" ELSE "pairs"
    /\ UNCHANGED <<nind, summary>>
    /\ UNCHANGED <<FEE_RATE, fscore, pc, scores, today, nrows, cash, pos,
                   buy_dt, results, histVars, twinVars, restVars>>

\* one iteration of the inner loop, in which run_backtest returns w
EvaluateWith(w) ==
    /\ gpc = "pairs"
    /\ run_count' = run_count + 1
    /\ best' = UpdateBest(best, tech_entry, tech_exit, w)
    /\ call' = <<tech_entry, tech_exit>>
    /\ IF ~w.nan /\ (hiSeen.nan \/ w.val > hiSeen.val)
       THEN hiSeen' = w /\ hiFirst' = <<tech_entry, tech_exit>>
       ELSE UNCHANGED <<hiSeen, hiFirst>>
    /\ LET nxt == NextPair(tech_entry, tech_exit)
       IN  IF nxt = NoPair
           THEN /\ gpc' = "summary"
                /\ UNCHANGED <<tech_entry, tech_exit>>
           ELSE /\ tech_entry' = nxt[1]
                /\ tech_exit' = nxt[2]
                /\ gpc' = "pairs"
    /\ UNCHANGED <<nind, ind, total_count, summary>>
    /\ UNCHANGED <<FEE_RATE, fscore, pc, scores, today, nrows, cash, pos,
                   buy_dt, results, histVars, twinVars, restVars>>

\* one iteration of the inner loop: run_backtest returns any of its values
Evaluate == \E w \in WinRates : EvaluateWith(w)

\* summary.append({...}) after the loops of an industry
AppendSummary ==
    /\ gpc = "summary"
    /\ summary' = Append(summary, SummaryRow(best))
    /\ gpc' = "industries"
    /\ UNCHANGED <<nind, ind, best, run_count, total_count, call, hiSeen,
                   hiFirst>>
    /\ UNCHANGED <<simVars, histVars, twinVars, restVars>>

\* the industries are exhausted: the report is written
WriteReport ==
    /\ gpc = "industries"
    /\ ind = nind
    /\ gpc' = "done"
    /\ UNCHANGED <<nind, ind, best, run_count, total_count, summary, call,
                   hiSeen, hiFirst>>
    /\ UNCHANGED <<simVars, histVars, twinVars, restVars>>

NextMain == BeginIndustry \/ Evaluate \/ AppendSummary \/ WriteReport

SpecMain == InitMain /\ [][NextMain]_vars

----------------------------------------------------------------------------
(* Properties of the grid search *)

\* the pairs with entry > exit of the two ranges
GridPairs ==
    {p \in (ENTRY_START..(ENTRY_STOP - 1)) \X (EXIT_START..(ENTRY_STOP - 1)) :
        /\ (p[1] - ENTRY_START) % GRID_STEP = 0
        /\ (p[2] - EXIT_START) % GRID_STEP = 0
        /\ p[1] > p[2]}

\* C8: the row of an industry holds the first pair, in iteration order,
\* that returned the highest average return, and that return.
C8_Claim ==
    (gpc = "industries" /\ ind >= 1) =>
        /\ Len(summary) = ind
        /\ hiFirst \in GridPairs
        /\ summary[ind] = [entry |-> hiFirst[1], exit |-> hiFirst[2],
                           win_rate |-> hiSeen]

\* the place of a pair among the pairs of the grid, entry ascending and,
\* within an entry, exit ascending
Rank(p) ==
    Cardinality({q \in GridPairs :
                   q[1] < p[1] \/ (q[1] = p[1] /\ q[2] <= p[2])})

\* C9: every pair passed to run_backtest has entry > exit; the n-th call
\* for an industry passes the n-th pair of the grid, so no pair is passed
\* twice; when the loops of an industry are over every pair of the grid
\* was passed and run_count = total_count.
C9_Theorem ==
    /\ (gpc \in {"pairs", "summary"} /\ run_count >= 1) =>
          /\ call[1] > call[2]
          /\ call \in GridPairs
          /\ Rank(call) = run_count
    /\ gpc = "summary" =>
          /\ run_count = Cardinality(GridPairs)
          /\ run_count = total_count

C9_Witness == gpc = "summary" /\ run_count = total_count /\ run_count > 0

----------------------------------------------------------------------------
(* run_backtest: the loop over the securities and the value returned.      *)
(* The frame of a security is one of a family: n rows on consecutive days, *)
(* all with the same tech_score, all with the same open but the last row.  *)

\* the rows calculate_indicators asks for before it computes anything
MIN_BARS == 30

MaxTickers == 2

FrameLens == {0, 1, MIN_BARS - 1, MIN_BARS}
\* the open of the rows before the last one
FrameOpens == {Num(10), Num(20)}
Frames == [n : FrameLens, open : FrameOpens, last : Opens, score : Scores]

\* the row of dates[i - 1] of frame f (rows are counted from 1)
FrameRow(f, i) ==
    [date |-> i - 1, open |-> IF i = f.n THEN f.last ELSE f.open]

\* the date and open of every row of frame f, and its tech_score column
FrameRows(f) == [i \in 1..f.n |-> FrameRow(f, i)]
FrameScores(f) == [i \in 1..f.n |-> f.score]

\* `for i in range(1, len(dates))` from the row of dates[i - 1] on, entered
\* with the locals s, on the rows `rows` with the tech_score column col
RECURSIVE RunLoop(_, _, _, _, _, _, _)
RunLoop(s, col, rows, i, te, tx, fs) ==
    IF i > Len(rows) THEN s
    ELSE LET t == LoopBody(s, <<col[i - 1], col[i]>>, rows[i], te, tx, fs)
         IN  IF t = s THEN RunLoop(s, col, rows, i + 1, te, tx, fs)
             ELSE RunLoop(t, col, rows, i + 1, te, tx, fs)

\* mutant: the cash of the securities simulated before is carried over
StartLocals_Carried ==
    [cash |-> Amt(INITIAL_CAPITAL_PER_STK * (1 + Len(results)), 1),
     pos |-> Zero, buy_dt |-> None]

\* cash, pos = INITIAL_CAPITAL_PER_STK, 0.0; buy_dt = None
StartLocals ==
    [cash |-> Amt(INITIAL_CAPITAL_PER_STK, 1), pos |-> Zero, buy_dt |-> None]

\* the locals when the simulation loop of a security is over
EndLocals(col, rows, te, tx, fs) ==
    RunLoop(StartLocals, col, rows, 2, te, tx, fs)

\* the profit run_backtest appends for a security with a non-empty frame
SecurityProfit(col, rows, te, tx, fs) ==
    Profit(FinalCash(EndLocals(col, rows, te, tx, fs), rows[Len(rows)]))

\* the nearest integer to n / d (d > 0), ties to the even one
RoundHalfEven(n, d) ==
    LET q == n \div d
        r == n - q * d
    IN  IF 2 * r < d THEN q
        ELSE IF 2 * r > d THEN q + 1
        ELSE IF q % 2 = 0 THEN q ELSE q + 1

RECURSIVE SumE6(_, _)
SumE6(rs, i) == IF i > Len(rs) THEN 0 ELSE PercentE6(rs[i]) + SumE6(rs, i + 1)

AnyNaN(rs) == \E i \in 1..Len(rs) : rs[i].nan

\* mutant: the first profit is counted twice
MeanReturn_FirstTwice(rs) ==
    IF AnyNaN(rs) THEN NaN
    ELSE Num(RoundHalfEven(SumE6(rs, 1) + PercentE6(rs[1]),
                           (Len(rs) + 1) * 10000))

\* round(sum(results) / len(results), 2), in 1/100 percent
MeanReturn(rs) ==
    IF AnyNaN(rs) THEN NaN
    ELSE Num(RoundHalfEven(SumE6(rs, 1), Len(rs) * 10000))

\* the value of the return statement
Returned(rs) == IF Len(rs) > 0 THEN MeanReturn(rs) ELSE Num(0)

\* run_backtest(tech_entry, tech_exit, industry) from its first line, for an
\* industry of up to MaxTickers sample securities
InitRun ==
    /\ FEE_RATE = FEE_RATE_DEFAULT
    /\ tech_entry \in TechEntryArgs
    /\ tech_exit = EXIT_START
    /\ fscore = 0
    /\ InitLocals
    /\ InitTwin
    /\ InitGrid
    /\ rpc = "tickers"
    /\ tleft \in 0..MaxTickers
    /\ ret = NaN
    /\ nshort = 0
    /\ nfull = 0
    /\ IdleAna
    /\ IdleExt

\* one iteration of `for ticker in sample_tickers` whose frame is empty
SkipTicker ==
    /\ rpc = "tickers"
    /\ tleft > 0
    /\ tleft' = tleft - 1
    /\ nshort' = nshort + 1
    /\ UNCHANGED <<rpc, ret, nfull>>
    /\ UNCHANGED <<simVars, histVars, twinVars, gridVars, anaVars,
                   extVars>>

\* one iteration of `for ticker in sample_tickers` whose frame has rows
SimulateTicker ==
    /\ rpc = "tickers"
    /\ tleft > 0
    /\ \E f \in Frames, fs \in FScores :
         /\ f.n > 0
         /\ results' = Append(results,
                              SecurityProfit(FrameScores(f), FrameRows(f),
                                             tech_entry, tech_exit, fs))
         /\ IF f.n < MIN_BARS
            THEN nshort' = nshort + 1 /\ nfull' = nfull
            ELSE nfull' = nfull + 1 /\ nshort' = nshort
    /\ tleft' = tleft - 1
    /\ UNCHANGED <<rpc, ret>>
    /\ UNCHANGED <<FEE_RATE, tech_entry, tech_exit, fscore, pc, scores, today,
                   nrows, cash, pos, buy_dt>>
    /\ UNCHANGED <<histVars, twinVars, gridVars, anaVars,
                   extVars>>

\* the return statement
Return ==
    /\ rpc = "tickers"
    /\ tleft = 0
    /\ ret' = Returned(results)
    /\ rpc' = "returned"
    /\ UNCHANGED <<tleft, nshort, nfull>>
    /\ UNCHANGED <<simVars, histVars, twinVars, gridVars, anaVars,
                   extVars>>

NextRun == SkipTicker \/ SimulateTicker \/ Return

SpecRun == InitRun /\ [][NextRun]_vars

\* C11: a security with fewer than MIN_BARS bars adds no profit to the
\* results the mean is taken over, and when no security was simulated the
\* value returned is not the number 0.0.
C11_Claim ==
    /\ Len(results) <= nfull
    /\ (rpc = "returned" /\ Len(results) = 0) => ret # Num(0)

----------------------------------------------------------------------------
(* The price history of a security and the indicator columns.              *)
(* A history is one of a family: n daily bars, the first `lead` of them    *)
(* with no prices stored (NULL), the closes after them moving by step[1]   *)
(* and step[2] in turn from BASE_PRICE, high and low `spread` away from    *)
(* the close, the open equal to the close.  Columns are sequences of       *)
(* floats, one per bar.                                                    *)

BASE_PRICE == 1000

\* flat, rising, falling, zigzags with RSI 50, 200/3, 70 and 30, and a
\* rising zigzag whose 5-day average crosses its 20-day average every day
StepPairs == {<<0, 0>>, <<1, 1>>, <<-1, -1>>, <<1, -1>>, <<2, -1>>,
              <<7, -3>>, <<3, -7>>, <<-40, 41>>}
\* 22 bars: the first length at which a 20-day average can cross the
\* average of all bars, 23 bars: the day after; 63 bars: two complete rows of the 60-day average
\* after a bar with no close
SeriesLens == {0, 2, 22, 23, MIN_BARS - 1, MIN_BARS, 63}
\* MACD_diff of a bar after the first priced one: the exponential averages
\* have denominators 13^i * 27^i * 10^i, so their value is taken as an input
MacdVals == {-3, 1, 3}

\* the 90-bar histories whose close rises every day
LONG_BARS == 90
RisingSteps == {<<1, 1>>, <<3, 3>>}

Series ==
    [n : SeriesLens, step : StepPairs, spread : {0, 1}, lead : {0, 1},
     macd : MacdVals]
    \cup [n : {LONG_BARS}, step : RisingSteps, spread : {0, 1}, lead : {0},
          macd : MacdVals]

\* the column f, a function on 1..n, stored as a sequence: every bar of it
\* is computed once
RECURSIVE Stored(_, _, _)
Stored(f, lo, hi) ==
    IF lo > hi THEN <<>>
    ELSE IF lo = hi THEN <<f[lo]>>
    ELSE LET mid == (lo + hi) \div 2
         IN  Stored(f, lo, mid) \o Stored(f, mid + 1, hi)

Column(f, n) == Stored(f, 1, n)

Close(ser, i) ==
    IF i <= ser.lead THEN FNaN
    ELSE Whole(BASE_PRICE + ser.step[1] * ((i - ser.lead) \div 2)
                          + ser.step[2] * ((i - ser.lead - 1) \div 2))

CloseCol(ser) == Column([i \in 1..ser.n |-> Close(ser, i)], ser.n)
HighCol(ser) ==
    Column([i \in 1..ser.n |-> FAdd(Close(ser, i), Whole(ser.spread))],
           ser.n)
LowCol(ser) ==
    Column([i \in 1..ser.n |-> FSub(Close(ser, i), Whole(ser.spread))],
           ser.n)

\* the sum of col[lo..hi]
RECURSIVE SumAll(_, _, _)
SumAll(col, lo, hi) ==
    IF lo > hi THEN Whole(0)
    ELSE IF lo = hi THEN col[lo]
    ELSE LET mid == (lo + hi) \div 2
         IN  FAdd(SumAll(col, lo, mid), SumAll(col, mid + 1, hi))

\* the sum of the values of col[lo..hi] that are not NaN
RECURSIVE SumFrom(_, _, _)
SumFrom(col, lo, hi) ==
    IF lo > hi THEN Whole(0)
    ELSE IF lo = hi THEN (IF col[lo].nan THEN Whole(0) ELSE col[lo])
    ELSE LET mid == (lo + hi) \div 2
         IN  FAdd(SumFrom(col, lo, mid), SumFrom(col, mid + 1, hi))

\* the first row of the window of w rows that ends at row i
WinLo(i, w) == IF i - w + 1 < 1 THEN 1 ELSE i - w + 1

\* the rows of col[lo..hi] that are not NaN
Observed(col, lo, hi) == {j \in lo..hi : ~col[j].nan}

\* col.rolling(window=w, min_periods=m).mean()
RollingMean(col, w, m) ==
    Column([i \in 1..Len(col) |->
               LET obs == Observed(col, WinLo(i, w), i)
               IN  IF Cardinality(obs) < m THEN FNaN
                   ELSE FDiv(SumFrom(col, WinLo(i, w), i),
                             Whole(Cardinality(obs)))],
           Len(col))

\* col.rolling(window=w, min_periods=m).min()
RollingMin(col, w, m) ==
    Column([i \in 1..Len(col) |->
               LET obs == Observed(col, WinLo(i, w), i)
               IN  IF Cardinality(obs) < m THEN FNaN
                   ELSE col[CHOOSE j \in obs :
                               \A k \in obs : FLe(col[j], col[k])]],
           Len(col))

\* col.rolling(window=w, min_periods=m).max()
RollingMax(col, w, m) ==
    Column([i \in 1..Len(col) |->
               LET obs == Observed(col, WinLo(i, w), i)
               IN  IF Cardinality(obs) < m THEN FNaN
                   ELSE col[CHOOSE j \in obs :
                               \A k \in obs : FGe(col[j], col[k])]],
           Len(col))

\* col.diff()
Diff(col) ==
    Column([i \in 1..Len(col) |->
               IF i = 1 THEN FNaN ELSE FSub(col[i], col[i - 1])],
           Len(col))

\* col.clip(lower=0)
ClipLower0(col) ==
    Column([i \in 1..Len(col) |->
               IF FLt(col[i], Whole(0)) THEN Whole(0) ELSE col[i]],
           Len(col))

Negated(col) == Column([i \in 1..Len(col) |-> FNeg(col[i])], Len(col))

\* 100 - (100 / (1 + rs)) on the columns of average gain and average loss
RsiOf(avg_gain, avg_loss) ==
    Column([i \in 1..Len(avg_gain) |->
               LET rs == FDiv(avg_gain[i], avg_loss[i])
               IN  FSub(Whole(100), FDiv(Whole(100), FAdd(Whole(1), rs)))],
           Len(avg_gain))

\* TechnicalIndicatorAnalyzer._calculate_rsi
CalculateRsi(prices, period) ==
    LET delta == Diff(prices)
        gain == ClipLower0(delta)
        loss == ClipLower0(Negated(delta))
        avg_gain == RollingMean(gain, period, period)
        avg_loss == RollingMean(loss, period, period)
    IN  RsiOf(avg_gain, avg_loss)

\* TechnicalIndicatorAnalyzer._calculate_macd_diff: NaN up to the first
\* priced bar, 0 at that bar, the input m after it
CalculateMacdDiff(prices, m) ==
    Column([i \in 1..Len(prices) |->
        IF \A j \in 1..i : prices[j].nan THEN FNaN
        ELSE IF \A j \in 1..(i - 1) : prices[j].nan THEN Whole(0)
        ELSE Whole(m)], Len(prices))

\* k_raw of _calculate_kd
KRaw(prices, high, low, period) ==
    LET lowest_low == RollingMin(low, period, period)
        highest_high == RollingMax(high, period, period)
    IN  Column([i \in 1..Len(prices) |->
            FDiv(FMul(Whole(100), FSub(prices[i], lowest_low[i])),
                 FSub(highest_high[i], lowest_low[i]))], Len(prices))

\* TechnicalIndicatorAnalyzer._calculate_kd
CalculateKd(prices, high, low, period, smooth_k, smooth_d) ==
    LET k_smooth == RollingMean(KRaw(prices, high, low, period), smooth_k,
                                smooth_k)
        d_smooth == RollingMean(k_smooth, smooth_d, smooth_d)
    IN  [K |-> k_smooth, D |-> d_smooth]

RSI_PERIOD == 14
KD_PERIOD == 9
KD_SMOOTH == 3

\* the columns RSI, MACD_diff, KD_K, KD_D of a history, one record per bar
IndicatorRows(ser) ==
    LET close == CloseCol(ser)
        rsi == CalculateRsi(close, RSI_PERIOD)
        macd == CalculateMacdDiff(close, ser.macd)
        kd == CalculateKd(close, HighCol(ser), LowCol(ser), KD_PERIOD,
                          KD_SMOOTH, KD_SMOOTH)
    IN  Column([i \in 1..ser.n |->
            [RSI |-> rsi[i], MACD_diff |-> macd[i], KD_K |-> kd.K[i],
             KD_D |-> kd.D[i]]], ser.n)

AnyUndefined(r) == r.RSI.nan \/ r.MACD_diff.nan \/ r.KD_K.nan \/ r.KD_D.nan

Defined(r) == ~AnyUndefined(r)

\* TechnicalIndicatorAnalyzer.calculate_indicators: None, or the rows of
\* the indicator columns left by dropna()
CalculateIndicators(ser) ==
    IF ser.n = 0 THEN [none |-> TRUE, rows |-> <<>>]
    ELSE IF ser.n < MIN_BARS THEN [none |-> TRUE, rows |-> <<>>]
    ELSE [none |-> FALSE, rows |-> SelectSeq(IndicatorRows(ser), Defined)]

----------------------------------------------------------------------------
(* The technical score: get_technical_score and the tech_score column of   *)
(* run_backtest                                                            *)

\* Python's min(a, b) and max(a, b): b wins only when the comparison holds
PyMin(a, b) == IF FLt(b, a) THEN b ELSE a
PyMax(a, b) == IF FGt(b, a) THEN b ELSE a

\* sum(scores) / len(scores)
Average(vals) == FDiv(SumAll(vals, 1, Len(vals)), Whole(Len(vals)))

\* mutant: an undefined value is not mapped to 0
MapScore_Unguarded(v, low, high) ==
    IF FLe(v, Whole(low)) THEN Whole(100)
    ELSE IF FGe(v, Whole(high)) THEN Whole(0)
    ELSE FMul(FDiv(FSub(Whole(high), v), Whole(high - low)), Whole(100))

\* mutant: inside the band the score rises with the value
MapScore_Rising(v, low, high) ==
    IF v.nan THEN Whole(0)
    ELSE IF FLe(v, Whole(low)) THEN Whole(100)
    ELSE IF FGe(v, Whole(high)) THEN Whole(0)
    ELSE FMul(FDiv(FSub(v, Whole(low)), Whole(high - low)), Whole(100))

\* mutant: a high value scores 100 and a low value 0
MapScore_Momentum(v, low, high) ==
    IF v.nan THEN Whole(0)
    ELSE IF FLe(v, Whole(low)) THEN Whole(0)
    ELSE IF FGe(v, Whole(high)) THEN Whole(100)
    ELSE FMul(FDiv(FSub(v, Whole(low)), Whole(high - low)), Whole(100))

\* run_backtest.map_score
MapScore(v, low, high) ==
    IF v.nan THEN Whole(0)
    ELSE IF FLe(v, Whole(low)) THEN Whole(100)
    ELSE IF FGe(v, Whole(high)) THEN Whole(0)
    ELSE FMul(FDiv(FSub(Whole(high), v), Whole(high - low)), Whole(100))

\* (max(min(r['MACD_diff'], 2), -2) + 2) / 4 * 100
MacdPoints(v) ==
    FMul(FDiv(FAdd(PyMax(PyMin(v, Whole(2)), Whole(-2)), Whole(2)),
              Whole(4)),
         Whole(100))

\* the four terms of the lambda that run_backtest applies to a row
RowScores(r) ==
    <<MapScore(r.RSI, 30, 70), MacdPoints(r.MACD_diff),
      MapScore(r.KD_K, 20, 80), MapScore(r.KD_D, 20, 80)>>

\* the lambda that run_backtest applies to a row: its tech_score
TechScore(r) == FDiv(SumAll(RowScores(r), 1, 4), Whole(4))

\* df of run_backtest once df['tech_score'] is set: the indicator columns
\* and the tech_score column, one record per bar
ScoredFrame(ser) ==
    LET df == IndicatorRows(ser)
    IN  Column([i \in 1..ser.n |->
                   [RSI |-> df[i].RSI, MACD_diff |-> df[i].MACD_diff,
                    KD_K |-> df[i].KD_K, KD_D |-> df[i].KD_D,
                    tech_score |-> TechScore(df[i])]],
               ser.n)

\* df['tech_score']
TechScoreCol(df) == Column([i \in 1..Len(df) |-> df[i].tech_score], Len(df))

\* get_technical_score: rsi_score
RsiScore(rsi_val) ==
    IF rsi_val.nan THEN Whole(0)
    ELSE IF FLe(rsi_val, Whole(30)) THEN Whole(100)
    ELSE IF FGe(rsi_val, Whole(70)) THEN Whole(0)
    ELSE FMul(FDiv(FSub(Whole(70), rsi_val), Whole(70 - 30)), Whole(100))

\* get_technical_score: macd_score
MacdScore(macd_val) ==
    IF macd_val.nan THEN Whole(0)
    ELSE LET clipped == PyMax(PyMin(macd_val, Whole(2)), Whole(-2))
         IN  FMul(FDiv(FAdd(clipped, Whole(2)), Whole(4)), Whole(100))

\* get_technical_score: kd_k_score
KdKScore(kd_k_val) ==
    IF kd_k_val.nan THEN Whole(0)
    ELSE IF FLe(kd_k_val, Whole(20)) THEN Whole(100)
    ELSE IF FGe(kd_k_val, Whole(80)) THEN Whole(0)
    ELSE FMul(FDiv(FSub(Whole(80), kd_k_val), Whole(80 - 20)), Whole(100))

\* get_technical_score: kd_d_score
KdDScore(kd_d_val) ==
    IF kd_d_val.nan THEN Whole(0)
    ELSE IF FLe(kd_d_val, Whole(20)) THEN Whole(100)
    ELSE IF FGe(kd_d_val, Whole(80)) THEN Whole(0)
    ELSE FMul(FDiv(FSub(Whole(80), kd_d_val), Whole(80 - 20)), Whole(100))

\* get_technical_score after df_ind = calculate_indicators(stock_id): the
\* value returned, with the row `latest` and the scores it averaged (none
\* when it returns the 0.0 of a missing or empty df_ind)
GetTechnicalScore(df_ind) ==
        IF df_ind.none
        THEN [none |-> TRUE, rows |-> 0, scores |-> <<>>, ret |-> Whole(0)]
        ELSE IF df_ind.rows = <<>>
        THEN [none |-> FALSE, rows |-> 0, scores |-> <<>>, ret |-> Whole(0)]
        ELSE LET latest == df_ind.rows[Len(df_ind.rows)]
                 subs == <<RsiScore(latest.RSI),
                           MacdScore(latest.MACD_diff),
                           KdKScore(latest.KD_K), KdDScore(latest.KD_D)>>
             IN  [none |-> FALSE, rows |-> Len(df_ind.rows),
                  latest |-> latest, scores |-> subs, ret |-> Average(subs)]

\* a stored close as the open price of the bar
ToPrice(v) == IF v.nan THEN NaN ELSE Num(v.n)

\* the date and open of every row of the frame run_backtest reads
SeriesRows(ser) ==
    Column([i \in 1..ser.n |->
               [date |-> i - 1, open |-> ToPrice(Close(ser, i))]],
           ser.n)

\* an analyzer is called on the price history of one security
InitAna ==
    /\ FEE_RATE = FEE_RATE_DEFAULT
    /\ tech_entry = None
    /\ tech_exit = None
    /\ fscore = 0
    /\ InitLocals
    /\ InitTwin
    /\ InitGrid
    /\ IdleRun
    /\ IdleExt
    /\ bars \in Series
    /\ tout = NoCall

\* calculate_indicators(stock_id)
CallCalculateIndicators ==
    /\ tout = NoCall
    /\ tout' = [fn |-> "calculate_indicators"] @@ CalculateIndicators(bars)
    /\ UNCHANGED <<bars, simVars, histVars, twinVars, gridVars, runVars,
                   extVars>>

\* get_technical_score(stock_id)
CallGetTechnicalScore ==
    /\ tout = NoCall
    /\ \E df_ind \in {CalculateIndicators(bars)} :
         tout' = [fn |-> "get_technical_score"] @@ GetTechnicalScore(df_ind)
    /\ UNCHANGED <<bars, simVars, histVars, twinVars, gridVars, runVars,
                   extVars>>

\* the body of `for ticker in sample_tickers` of run_backtest for a security
\* whose frame is not empty, up to the profit
BacktestSecurity ==
    /\ tout = NoCall
    /\ bars.n > 0
    /\ \E df \in {ScoredFrame(bars)}, te \in TechEntryArgs, fs \in FScores :
         \E end \in {EndLocals(TechScoreCol(df), SeriesRows(bars), te,
                               EXIT_START, fs)} :
           tout' = [fn |-> "run_backtest", te |-> te, fs |-> fs, df |-> df,
                    cash |-> end.cash, pos |-> end.pos,
                    buy_dt |-> end.buy_dt,
                    profit |-> Profit(FinalCash(end,
                                                SeriesRows(bars)[bars.n]))]
    /\ UNCHANGED <<bars, simVars, histVars, twinVars, gridVars, runVars,
                   extVars>>

----------------------------------------------------------------------------
(* analyze_ma: the moving averages of the close, the signals of the last   *)
(* two complete rows and the score                                         *)

MA_FAST == 5
MA_MID == 20
MA_SLOW == 60
MA_BASE_SCORE == 50
BULLISH_POINTS == 30
GOLDEN_POINTS == 20
DEATH_POINTS == 30

\* df of analyze_ma with the columns MA_5, MA_20 and MA_60
MaRows(ser) ==
    LET close == CloseCol(ser)
        ma5 == RollingMean(close, MA_FAST, MA_FAST)
        ma20 == RollingMean(close, MA_MID, MA_MID)
        ma60 == RollingMean(close, MA_SLOW, MA_SLOW)
    IN  Column([i \in 1..ser.n |->
                   [day |-> i, close |-> close[i], MA_5 |-> ma5[i],
                    MA_20 |-> ma20[i], MA_60 |-> ma60[i]]],
               ser.n)

MaComplete(r) == ~(r.close.nan \/ r.MA_5.nan \/ r.MA_20.nan \/ r.MA_60.nan)

\* df.dropna()
MaValid(ser) == SelectSeq(MaRows(ser), MaComplete)

\* the three conditions of analyze_ma on the rows latest and prev
MaBullish(latest) ==
    FGt(latest.MA_5, latest.MA_20) /\ FGt(latest.MA_20, latest.MA_60)
\* mutant: the golden cross looks at the latest row only
MaGolden_LatestOnly(prev, latest) == FGt(latest.MA_5, latest.MA_20)

MaGolden(prev, latest) ==
    FLt(prev.MA_5, prev.MA_20) /\ FGt(latest.MA_5, latest.MA_20)
MaDeath(prev, latest) ==
    FGt(prev.MA_5, prev.MA_20) /\ FLt(latest.MA_5, latest.MA_20)

\* the list `signals` of analyze_ma
MaSignals(prev, latest) ==
    (IF MaBullish(latest) THEN <<"bullish">> ELSE <<>>)
    \o (IF MaGolden(prev, latest) THEN <<"golden_cross">> ELSE <<>>)
    \o (IF MaDeath(prev, latest) THEN <<"death_cross">> ELSE <<>>)

Has(signals, label) == \E i \in 1..Len(signals) : signals[i] = label

\* mutant: a death cross takes 20 points
MaScore_DeathTwenty(signals) ==
    MA_BASE_SCORE
    + (IF Has(signals, "bullish") THEN BULLISH_POINTS ELSE 0)
    + (IF Has(signals, "golden_cross") THEN GOLDEN_POINTS ELSE 0)
    - (IF Has(signals, "death_cross") THEN GOLDEN_POINTS ELSE 0)

\* the score of analyze_ma before it is clamped
MaScore(signals) ==
    MA_BASE_SCORE
    + (IF Has(signals, "bullish") THEN BULLISH_POINTS ELSE 0)
    + (IF Has(signals, "golden_cross") THEN GOLDEN_POINTS ELSE 0)
    - (IF Has(signals, "death_cross") THEN DEATH_POINTS ELSE 0)

IntMin(a, b) == IF b < a THEN b ELSE a
IntMax(a, b) == IF b > a THEN b ELSE a

\* max(0, min(100, score))
Clamp(score) == IntMax(0, IntMin(100, score))

\* ", ".join(signals)
RECURSIVE Join(_)
Join(signals) ==
    IF signals = <<>> THEN ""
    ELSE IF Len(signals) = 1 THEN signals[1]
    ELSE signals[1] \o ", " \o Join(Tail(signals))

\* the row analyze_ma returns, given df_valid
AnalyzeMa(df_valid) ==
    IF df_valid = <<>> \/ Len(df_valid) < 2
    THEN [valid |-> Len(df_valid), signals |-> <<>>,
          text |-> "insufficient_data", score |-> 0]
    ELSE LET latest == df_valid[Len(df_valid)]
             prev == df_valid[Len(df_valid) - 1]
             signals == MaSignals(prev, latest)
         IN  [valid |-> Len(df_valid), df_valid |-> df_valid, prev |-> prev,
              latest |-> latest, signals |-> signals,
              text |-> IF signals # <<>> THEN Join(signals)
                       ELSE "no_signal",
              score |-> Clamp(MaScore(signals))]

\* analyze_ma(stock_id, conn)
CallAnalyzeMa ==
    /\ tout = NoCall
    /\ \E df_valid \in {MaValid(bars)} :
         tout' = [fn |-> "analyze_ma"] @@ AnalyzeMa(df_valid)
    /\ UNCHANGED <<bars, simVars, histVars, twinVars, gridVars, runVars,
                   extVars>>

----------------------------------------------------------------------------
(* analyze_swing_stock: moving averages, MACD, RSI, ATR and Bollinger      *)
(* bands of a history, the signals of its last two complete rows and the   *)
(* score                                                                   *)

SWING_MA_SHORT == 20
SWING_MA_LONG == 60
SWING_RSI_WINDOW == 14
SWING_ATR_WINDOW == 14
SWING_BB_WINDOW == 20
SWING_BB_FACTOR == 2
SWING_BASE_SCORE == 50

\* col.clip(upper=0)
ClipUpper0(col) ==
    Column([i \in 1..Len(col) |->
               IF FGt(col[i], Whole(0)) THEN Whole(0) ELSE col[i]],
           Len(col))

\* col.shift(1)
Shift1(col) ==
    Column([i \in 1..Len(col) |-> IF i = 1 THEN FNaN ELSE col[i - 1]],
           Len(col))

FAbs(x) == IF FLt(x, Whole(0)) THEN FNeg(x) ELSE x

\* the largest of the values of a row that are not NaN, NaN when all are
RowMax(vals) ==
    LET obs == {j \in 1..Len(vals) : ~vals[j].nan}
    IN  IF obs = {} THEN FNaN
        ELSE vals[CHOOSE j \in obs : \A k \in obs : FGe(vals[j], vals[k])]

\* df['TR']
TrueRange(close, high, low) ==
    LET prev_close == Shift1(close)
    IN  Column([i \in 1..Len(close) |->
                   RowMax(<<FSub(high[i], low[i]),
                            FAbs(FSub(high[i], prev_close[i])),
                            FAbs(FSub(low[i], prev_close[i]))>>)],
               Len(close))

\* the sum of (col[j] - mean)^2 over the values of col[lo..hi] that are
\* not NaN
RECURSIVE SumSqDev(_, _, _, _)
SumSqDev(col, mean, lo, hi) ==
    IF lo > hi THEN Whole(0)
    ELSE IF lo = hi
    THEN (IF col[lo].nan THEN Whole(0)
          ELSE FMul(FSub(col[lo], mean), FSub(col[lo], mean)))
    ELSE LET mid == (lo + hi) \div 2
         IN  FAdd(SumSqDev(col, mean, lo, mid),
                  SumSqDev(col, mean, mid + 1, hi))

\* the square of col.rolling(window=w, min_periods=1).std(): the sample
\* variance of the window, NaN with fewer than two observations
RollingVar(col, w) ==
    Column([i \in 1..Len(col) |->
               LET k == Cardinality(Observed(col, WinLo(i, w), i))
               IN  IF k < 2 THEN FNaN
                   ELSE FDiv(SumSqDev(col,
                                      FDiv(SumFrom(col, WinLo(i, w), i),
                                           Whole(k)),
                                      WinLo(i, w), i),
                             Whole(k - 1))],
           Len(col))

\* the RSI of analyze_swing_stock
SwingRsi(close) ==
    LET delta == Diff(close)
        gain == ClipLower0(delta)
        loss == Negated(ClipUpper0(delta))
        avg_gain == RollingMean(gain, SWING_RSI_WINDOW, 1)
        avg_loss == RollingMean(loss, SWING_RSI_WINDOW, 1)
    IN  RsiOf(avg_gain, avg_loss)

\* MACD_HIST = MACD - MACD_SIGNAL: NaN up to the first priced bar, 0 at
\* that bar, the input m at the last bar and the input mp between them
MacdHist(prices, mp, m) ==
    Column([i \in 1..Len(prices) |->
               IF \A j \in 1..i : prices[j].nan THEN FNaN
               ELSE IF \A j \in 1..(i - 1) : prices[j].nan THEN Whole(0)
               ELSE IF i = Len(prices) THEN Whole(m)
               ELSE Whole(mp)],
           Len(prices))

\* df of analyze_swing_stock without the MACD columns; BB_VAR is the
\* square of BB_STD
SwingRows(ser) ==
    LET close == CloseCol(ser)
        ma_short == RollingMean(close, SWING_MA_SHORT, 1)
        ma_long == RollingMean(close, SWING_MA_LONG, 1)
        rsi == SwingRsi(close)
        atr == RollingMean(TrueRange(close, HighCol(ser), LowCol(ser)),
                           SWING_ATR_WINDOW, 1)
        bb_mid == RollingMean(close, SWING_BB_WINDOW, 1)
        bb_var == RollingVar(close, SWING_BB_WINDOW)
    IN  Column([i \in 1..ser.n |->
                   [day |-> i, close |-> close[i], MA_short |-> ma_short[i],
                    MA_long |-> ma_long[i], RSI |-> rsi[i], ATR |-> atr[i],
                    BB_MID |-> bb_mid[i], BB_VAR |-> bb_var[i]]],
               ser.n)

\* df with the column MACD_HIST
WithMacd(df, hist) ==
    Column([i \in 1..Len(df) |-> [MACD_HIST |-> hist[i]] @@ df[i]],
           Len(df))

\* MACD is NaN where MACD_HIST is; BB_UP and BB_DN where BB_MID or
\* BB_STD is
SwingComplete(r) ==
    ~(r.MA_short.nan \/ r.MA_long.nan \/ r.MACD_HIST.nan \/ r.RSI.nan
      \/ r.ATR.nan \/ r.BB_MID.nan \/ r.BB_VAR.nan)

\* x > factor * sqrt(var), compared through the squares
ExceedsStd(x, var, factor) ==
    FGt(x, Whole(0)) /\ FGt(FMul(x, x), FMul(Whole(factor * factor), var))

\* latest['close'] > latest['BB_UP'] and latest['close'] < latest['BB_DN']
AboveBand(r) ==
    ExceedsStd(FSub(r.close, r.BB_MID), r.BB_VAR, SWING_BB_FACTOR)
BelowBand(r) ==
    ExceedsStd(FSub(r.BB_MID, r.close), r.BB_VAR, SWING_BB_FACTOR)

AtrCol(df_valid) ==
    Column([i \in 1..Len(df_valid) |-> df_valid[i].ATR], Len(df_valid))

SwingBullish(latest) == FGt(latest.MA_short, latest.MA_long)
SwingGolden(prev, latest) ==
    FLt(prev.MA_short, prev.MA_long) /\ FGt(latest.MA_short, latest.MA_long)

\* the signals of analyze_swing_stock with the points each one adds
SwingSignals(prev, latest, atr_mean) ==
    (IF SwingBullish(latest) THEN <<[label |-> "bullish", points |-> 25]>>
     ELSE <<>>)
    \o (IF SwingGolden(prev, latest)
        THEN <<[label |-> "golden_cross", points |-> 20]>> ELSE <<>>)
    \o (IF FGt(latest.MACD_HIST, Whole(0))
        THEN <<[label |-> "macd_positive", points |-> 15]>> ELSE <<>>)
    \o (IF FLt(prev.MACD_HIST, Whole(0)) /\ FGt(latest.MACD_HIST, Whole(0))
        THEN <<[label |-> "macd_golden_cross", points |-> 15]>> ELSE <<>>)
    \o (IF FLt(latest.RSI, Whole(30))
        THEN <<[label |-> "rsi_oversold", points |-> 10]>>
        ELSE IF FGt(latest.RSI, Whole(70))
        THEN <<[label |-> "rsi_overbought", points |-> -10]>> ELSE <<>>)
    \o (IF FGt(latest.ATR, atr_mean)
        THEN <<[label |-> "high_volatility", points |-> -10]>> ELSE <<>>)
    \o (IF AboveBand(latest)
        THEN <<[label |-> "band_breakout_up", points |-> 10]>>
        ELSE IF BelowBand(latest)
        THEN <<[label |-> "band_breakout_down", points |-> 10]>> ELSE <<>>)

RECURSIVE SumPoints(_)
SumPoints(signals) ==
    IF signals = <<>> THEN 0
    ELSE signals[1].points + SumPoints(Tail(signals))

\* the row analyze_swing_stock returns, given df_valid
AnalyzeSwing(df_valid) ==
    IF df_valid = <<>>
    THEN [valid |-> 0, signals |-> <<>>, score |-> 0]
    ELSE LET latest == df_valid[Len(df_valid)]
             prev == IF Len(df_valid) >= 2 THEN df_valid[Len(df_valid) - 1]
                     ELSE latest
             atr_mean == FDiv(SumAll(AtrCol(df_valid), 1, Len(df_valid)),
                              Whole(Len(df_valid)))
             signals == SwingSignals(prev, latest, atr_mean)
         IN  [valid |-> Len(df_valid), df_valid |-> df_valid, prev |-> prev,
              latest |-> latest, signals |-> signals,
              raw |-> SWING_BASE_SCORE + SumPoints(signals),
              score |-> Clamp(SWING_BASE_SCORE + SumPoints(signals))]

\* analyze_swing_stock(stock_id)
CallAnalyzeSwing ==
    /\ tout = NoCall
    /\ \E df \in {SwingRows(bars)}, mp \in MacdVals :
         \E hist \in {MacdHist(CloseCol(bars), mp, bars.macd)} :
           \E df_valid \in {SelectSeq(WithMacd(df, hist), SwingComplete)} :
             tout' = [fn |-> "analyze_swing_stock"] @@ AnalyzeSwing(df_valid)
    /\ UNCHANGED <<bars, simVars, histVars, twinVars, gridVars, runVars,
                   extVars>>

NextAna ==
    \/ CallCalculateIndicators
    \/ CallGetTechnicalScore
    \/ BacktestSecurity
    \/ CallAnalyzeMa
    \/ CallAnalyzeSwing


SpecAna == InitAna /\ [][NextAna]_vars

----------------------------------------------------------------------------
(* Claims about the indicators and the technical score                     *)

\* C12: for a history of fewer than MIN_BARS bars calculate_indicators
\* returns None and get_technical_score returns 0.0 without a row, and no
\* tech_score of run_backtest is computed from a row in which an indicator
\* is undefined.
C12_Claim ==
    bars.n < MIN_BARS =>
        /\ tout.fn = "calculate_indicators" => tout.none
        /\ tout.fn = "get_technical_score" =>
               tout.none /\ tout.ret = Whole(0)
        /\ tout.fn = "run_backtest" =>
               \A i \in 1..Len(tout.df) : Defined(tout.df[i])

\* a float in [0, 100]
InRange(v) == FGe(v, Whole(0)) /\ FLe(v, Whole(100))

\* C13: every sub-score and every composite score of get_technical_score,
\* of the tech_score column of run_backtest, of analyze_ma and of
\* analyze_swing_stock lies in [0, 100], undefined indicator values
\* included.
C13_Claim ==
    /\ tout.fn = "get_technical_score" =>
           /\ InRange(tout.ret)
           /\ \A j \in 1..Len(tout.scores) : InRange(tout.scores[j])
    /\ tout.fn = "run_backtest" =>
           \A i \in 1..Len(tout.df) :
               /\ InRange(tout.df[i].tech_score)
               /\ \A j \in 1..4 : InRange(RowScores(tout.df[i])[j])
    /\ tout.fn \in {"analyze_ma", "analyze_swing_stock"} =>
           tout.score \in 0..100

\* out is the score of value for the bounds low and high: 100 when
\* value <= low, 0 when value >= high, (high - value)/(high - low)*100
\* strictly between, 0 when value is undefined
ScoreLaw(value, low, high, out) ==
    /\ value.nan => out = Whole(0)
    /\ FLe(value, Whole(low)) => out = Whole(100)
    /\ FGe(value, Whole(high)) => out = Whole(0)
    /\ (FGt(value, Whole(low)) /\ FLt(value, Whole(high))) =>
           out = FMul(FDiv(FSub(Whole(high), value), Whole(high - low)),
                      Whole(100))

StrictlyBetween(value, low, high) ==
    FGt(value, Whole(low)) /\ FLt(value, Whole(high))

\* C14: map_score of run_backtest and the RSI, %K and %D branches of
\* get_technical_score compute the same function, for 30/70 and 20/80:
\* 100 at or below low, 0 at or above high, linear strictly between, 0 for
\* an undefined value.
C14_Theorem ==
    /\ tout.fn = "run_backtest" =>
           \A i \in 1..Len(tout.df) :
               /\ ScoreLaw(tout.df[i].RSI, 30, 70,
                           RowScores(tout.df[i])[1])
               /\ ScoreLaw(tout.df[i].KD_K, 20, 80,
                           RowScores(tout.df[i])[3])
               /\ ScoreLaw(tout.df[i].KD_D, 20, 80,
                           RowScores(tout.df[i])[4])
               /\ RsiScore(tout.df[i].RSI) = RowScores(tout.df[i])[1]
               /\ KdKScore(tout.df[i].KD_K) = RowScores(tout.df[i])[3]
               /\ KdDScore(tout.df[i].KD_D) = RowScores(tout.df[i])[4]
    /\ (tout.fn = "get_technical_score" /\ tout.rows > 0) =>
           /\ ScoreLaw(tout.latest.RSI, 30, 70, tout.scores[1])
           /\ ScoreLaw(tout.latest.KD_K, 20, 80, tout.scores[3])
           /\ ScoreLaw(tout.latest.KD_D, 20, 80, tout.scores[4])

\* a frame of run_backtest with an undefined RSI, an RSI strictly between
\* 30 and 70 and a %K strictly between 20 and 80
C14_Witness ==
    /\ tout.fn = "run_backtest"
    /\ \E i \in 1..Len(tout.df) : tout.df[i].RSI.nan
    /\ \E i \in 1..Len(tout.df) : StrictlyBetween(tout.df[i].RSI, 30, 70)
    /\ \E i \in 1..Len(tout.df) : StrictlyBetween(tout.df[i].KD_K, 20, 80)

\* the indicator values of row i of a frame
ValuesNear(df, i) == {df[i].RSI, df[i].KD_K, df[i].KD_D}

\* map_score does not rise from value1 to value2, and falls when both are
\* strictly inside the band
Monotone(value1, value2, low, high) ==
    /\ FLe(value1, value2) =>
           FGe(MapScore(value1, low, high), MapScore(value2, low, high))
    /\ (/\ StrictlyBetween(value1, low, high)
        /\ StrictlyBetween(value2, low, high)
        /\ FLt(value1, value2)) =>
           FGt(MapScore(value1, low, high), MapScore(value2, low, high))

\* C15: map_score is strictly decreasing inside the band (low < value1 <
\* value2 < high gives score(value1) > score(value2)) and non-increasing
\* over all defined values, for the bands 30/70 and 20/80.
C15_Theorem ==
    tout.fn = "run_backtest" =>
        \A i \in 1..Len(tout.df) :
            \A value1, value2 \in ValuesNear(tout.df, i) :
                /\ Monotone(value1, value2, 30, 70)
                /\ Monotone(value1, value2, 20, 80)

\* a frame with a row that has two different values strictly inside the
\* band 30/70
C15_Witness ==
    /\ tout.fn = "run_backtest"
    /\ \E i \in 1..Len(tout.df) :
           \E value1, value2 \in ValuesNear(tout.df, i) :
               /\ StrictlyBetween(value1, 30, 70)
               /\ StrictlyBetween(value2, 30, 70)
               /\ FLt(value1, value2)

\* the short average is below the long one on row t - 1 of the complete
\* rows and above it on row t
CrossesUp(short, long, t) ==
    /\ t - 1 >= 1
    /\ t <= Len(short)
    /\ FLt(short[t - 1], long[t - 1])
    /\ FGt(short[t], long[t])

\* golden and death, the flags of a snapshot whose current row is the
\* last of the columns short and long, obey the claim
CrossLaw(short, long, golden, death) ==
    LET cur == Len(short)
    IN  /\ ~(golden /\ death)
        /\ death <=> CrossesUp(long, short, cur)
        /\ golden <=> CrossesUp(short, long, cur)
        /\ CrossesUp(short, long, cur - 1) => ~golden
        /\ FLt(short[cur], long[cur]) => ~golden

Ma5Col(df) == [i \in 1..Len(df) |-> df[i].MA_5]
Ma20Col(df) == [i \in 1..Len(df) |-> df[i].MA_20]
MaShortCol(df) == [i \in 1..Len(df) |-> df[i].MA_short]
MaLongCol(df) == [i \in 1..Len(df) |-> df[i].MA_long]

HasLabel(signals, label) ==
    \E i \in 1..Len(signals) : signals[i].label = label

\* C16: golden cross and death cross are never flagged together, death
\* cross is golden cross with the two averages exchanged, and the golden
\* cross is flagged exactly when the short average crosses above the long
\* one on the current day T: not with current day T + 1 and not with
\* current day T - 1 (on which the short average is still below).
C16_Theorem ==
    /\ (tout.fn = "analyze_ma" /\ tout.valid >= 2) =>
           CrossLaw(Ma5Col(tout.df_valid), Ma20Col(tout.df_valid),
                    Has(tout.signals, "golden_cross"),
                    Has(tout.signals, "death_cross"))
    /\ (tout.fn = "analyze_swing_stock" /\ tout.valid >= 2) =>
           /\ HasLabel(tout.signals, "golden_cross")
                  <=> CrossesUp(MaShortCol(tout.df_valid),
                                MaLongCol(tout.df_valid), tout.valid)
           /\ CrossesUp(MaShortCol(tout.df_valid),
                        MaLongCol(tout.df_valid), tout.valid - 1)
                  => ~HasLabel(tout.signals, "golden_cross")
           /\ FLt(tout.latest.MA_short, tout.latest.MA_long)
                  => ~HasLabel(tout.signals, "golden_cross")

\* analyze_ma on a history whose 5-day average crossed above the 20-day
\* average on the day before the current one and is below it again
C16_Witness ==
    /\ tout.fn = "analyze_ma"
    /\ tout.valid >= 3
    /\ CrossesUp(Ma5Col(tout.df_valid), Ma20Col(tout.df_valid),
                 tout.valid - 1)
    /\ Has(tout.signals, "death_cross")

\* 1 when the condition holds, 0 when it does not
Bit(cond) == IF cond THEN 1 ELSE 0

\* x limited to 0..100
Clamped(x) == IF x < 0 THEN 0 ELSE IF x > 100 THEN 100 ELSE x

\* the three conditions of the additive mode on the rows of a snapshot
BullishAlignment(r) == FGt(r.MA_5, r.MA_20) /\ FGt(r.MA_20, r.MA_60)
GoldenCross(p, r) == FLt(p.MA_5, p.MA_20) /\ FGt(r.MA_5, r.MA_20)
DeathCross(p, r) == FGt(p.MA_5, p.MA_20) /\ FLt(r.MA_5, r.MA_20)

\* C17: with two or more complete rows analyze_ma returns
\* clamp(50 + 30*[bullish alignment] + 20*[golden cross]
\* - 30*[death cross], 0, 100), and its labels are exactly the signals
\* whose points were applied.
C17_Theorem ==
    (tout.fn = "analyze_ma" /\ tout.valid >= 2) =>
        /\ tout.score =
               Clamped(50 + 30 * Bit(BullishAlignment(tout.latest))
                          + 20 * Bit(GoldenCross(tout.prev, tout.latest))
                          - 30 * Bit(DeathCross(tout.prev, tout.latest)))
        /\ Has(tout.signals, "bullish") <=> BullishAlignment(tout.latest)
        /\ Has(tout.signals, "golden_cross")
               <=> GoldenCross(tout.prev, tout.latest)
        /\ Has(tout.signals, "death_cross")
               <=> DeathCross(tout.prev, tout.latest)
        /\ \A i \in 1..Len(tout.signals) :
               tout.signals[i] \in {"bullish", "golden_cross", "death_cross"}
        /\ tout.text = IF tout.signals = <<>> THEN "no_signal"
                       ELSE Join(tout.signals)

\* analyze_ma on a history with a death cross on the current day
C17_Witness ==
    /\ tout.fn = "analyze_ma"
    /\ tout.valid >= 2
    /\ DeathCross(tout.prev, tout.latest)
    /\ tout.score = 20

\* the highest high and the lowest low of the KD_PERIOD bars that end at
\* bar i are equal
Degenerate(ser, i) ==
    /\ i - KD_PERIOD + 1 > ser.lead
    /\ \A j, k \in (i - KD_PERIOD + 1)..i :
           FAdd(Close(ser, j), Whole(ser.spread))
               = FSub(Close(ser, k), Whole(ser.spread))

\* the tech_score of a row when an undefined %K or %D is left out of the
\* average
WithoutUndefinedKd(r) ==
    FDiv(FAdd(FAdd(MapScore(r.RSI, 30, 70), MacdPoints(r.MACD_diff)),
              FAdd(IF r.KD_K.nan THEN Whole(0) ELSE MapScore(r.KD_K, 20, 80),
                   IF r.KD_D.nan THEN Whole(0)
                   ELSE MapScore(r.KD_D, 20, 80))),
         Whole(2 + Bit(~r.KD_K.nan) + Bit(~r.KD_D.nan)))

\* C18: on a bar whose highest high equals its lowest low over the KD
\* period %K and %D are undefined (not a finite or infinite quotient) and
\* they are left out of the averaged tech_score: the divisor shrinks.
C18_Claim ==
    tout.fn = "run_backtest" =>
        \A i \in 1..Len(tout.df) :
            Degenerate(bars, i) =>
                /\ tout.df[i].KD_K.nan
                /\ tout.df[i].KD_D.nan
                /\ tout.df[i].tech_score = WithoutUndefinedKd(tout.df[i])

\* the change of the close from bar j - 1 to bar j
Delta(ser, j) == FSub(Close(ser, j), Close(ser, j - 1))

\* the bars whose change enters the RSI of bar i
RsiWindow(i) == (i - RSI_PERIOD + 1)..i

\* the bars whose change enters the RSI of the last bar in
\* analyze_swing_stock
SwingRsiWindow(ser) ==
    {j \in (ser.n - SWING_RSI_WINDOW + 1)..ser.n : j >= ser.lead + 2}

\* the last bar is the latest row of analyze_swing_stock, with this RSI
SwingRsiIs(v) ==
    tout.valid > 0 /\ tout.latest.day = bars.n /\ tout.latest.RSI = v

\* C19: on a bar with RSI_PERIOD changes of the close behind it, when no
\* change is a loss (the average loss is 0, a flat history included) the
\* RSI is 100, and when every change is a loss the RSI is 0; the same for
\* the RSI of analyze_swing_stock on the changes it has.
C19_Claim ==
    /\ tout.fn = "run_backtest" =>
           \A i \in (bars.lead + RSI_PERIOD + 1)..Len(tout.df) :
               /\ (\A j \in RsiWindow(i) : FGe(Delta(bars, j), Whole(0)))
                      => tout.df[i].RSI = Whole(100)
               /\ (\A j \in RsiWindow(i) : FLt(Delta(bars, j), Whole(0)))
                      => tout.df[i].RSI = Whole(0)
    /\ (tout.fn = "analyze_swing_stock" /\ SwingRsiWindow(bars) # {}) =>
           /\ (\A j \in SwingRsiWindow(bars) :
                   FGe(Delta(bars, j), Whole(0)))
                  => SwingRsiIs(Whole(100))
           /\ (\A j \in SwingRsiWindow(bars) :
                   FLt(Delta(bars, j), Whole(0)))
                  => SwingRsiIs(Whole(0))

\* run_backtest with entry threshold 60 on a history of LONG_BARS bars,
\* all priced, whose close rises every day
RisingRun ==
    /\ tout.fn = "run_backtest"
    /\ tout.te = 60
    /\ bars.n = LONG_BARS
    /\ bars.lead = 0
    /\ \A j \in 2..bars.n : FGt(Delta(bars, j), Whole(0))

\* the simulation ended with the initial cash, no shares and no entry date
NeverEntered ==
    /\ tout.cash = Amt(INITIAL_CAPITAL_PER_STK, 1)
    /\ tout.pos = Zero
    /\ tout.buy_dt = None

----------------------------------------------------------------------------
(* Claims about the aggregation over the sample securities                 *)

\* the profits rs in the order p
Reordered(rs, p) == [i \in 1..Len(rs) |-> rs[p[i]]]

\* the mean of the profits, rounded to 1/100 percent, taken once over all
\* of them
MeanOnce(rs) ==
    IF AnyNaN(rs) THEN NaN
    ELSE Num(RoundHalfEven(SumE6(rs, 1), Len(rs) * 10000))

\* a step appends at most one profit, for the security it takes, and only a
\* step taken after the last security sets the value returned
C21_Step ==
    /\ results' # results =>
           /\ tleft' = tleft - 1
           /\ Len(results') = Len(results) + 1
           /\ SubSeq(results', 1, Len(results)) = results
    /\ rpc' # rpc =>
           /\ rpc' = "returned"
           /\ tleft = 0
           /\ results' = results

\* the value returned for a sample with a profit is the mean of all the
\* profits, each counted once, in whatever order they are taken
C21_Mean ==
    (rpc = "returned" /\ Len(results) > 0) =>
        \A p \in Permutations(1..Len(results)) :
            ret = MeanOnce(Reordered(results, p))

\* C21: the mean return is computed after the simulation of every sample
\* security, counts each simulated security once, and does not depend on
\* the order of the securities.
C21_Theorem == [][C21_Step]_vars /\ []C21_Mean

\* a run that returned the mean of two different profits
C21_Witness ==
    /\ rpc = "returned"
    /\ Len(results) = 2
    /\ ~AnyNaN(results)
    /\ results[1] # results[2]

\* the profit of the frame f simulated from the initial capital, no shares
\* and no entry date
AloneProfit(f, fs) ==
    Profit(FinalCash(RunLoop([cash |-> Amt(INITIAL_CAPITAL_PER_STK, 1),
                              pos |-> Zero, buy_dt |-> None],
                             FrameScores(f), FrameRows(f), 2, tech_entry,
                             tech_exit, fs),
                     FrameRows(f)[f.n]))

\* C22: the profit appended for a security is the profit a security realizes
\* from cash = initial capital, shares = 0 and no entry date, whatever was
\* simulated before it in the same call.
C22_Theorem ==
    [][results' # results =>
          \E f \in {g \in Frames : g.n > 0}, fs \in FScores :
              results'[Len(results')] = AloneProfit(f, fs)]_vars

\* a second security is simulated after one that was traded
C22_Witness ==
    /\ rpc = "tickers"
    /\ Len(results) = 2
    /\ results[1].k > 0

-----------------------------------------------------------------------------
(* The grid search run twice on the same database *)

\* a sample security of an industry: its price frame and financial score
Securities == [f : Frames, fs : FScores]

\* the databases: every industry has no sample security or a single one
DataSets == {<<>>} \cup {<<sec>> : sec \in Securities}

\* the profits run_backtest appends over the sample securities from the
\* i-th on; a security whose frame is empty is skipped
RECURSIVE ProfitsFrom(_, _, _, _)
ProfitsFrom(db, i, te, tx) ==
    IF i > Len(db) THEN <<>>
    ELSE IF db[i].f.n = 0 THEN ProfitsFrom(db, i + 1, te, tx)
    ELSE <<SecurityProfit(FrameScores(db[i].f), FrameRows(db[i].f), te, tx,
                          db[i].fs)>>
         \o ProfitsFrom(db, i + 1, te, tx)

\* mutant: the returns of the second run are shifted by the first run's rows
RunBacktest_Drift(db, te, tx) ==
    LET w == Returned(ProfitsFrom(db, 1, te, tx))
    IN  IF w.nan THEN w ELSE Num(w.val + te * Len(summary1))

\* run_backtest(tech_entry, tech_exit, industry) on the database db
RunBacktest(db, te, tx) == Returned(ProfitsFrom(db, 1, te, tx))

InitTwice ==
    /\ FEE_RATE = FEE_RATE_DEFAULT
    /\ tech_entry = None
    /\ tech_exit = None
    /\ fscore = 0
    /\ InitLocals
    /\ InitTwin
    /\ InitGrid
    /\ IdleRun
    /\ IdleAna
    /\ data \in DataSets
    /\ pass = 1
    /\ summary1 = <<>>
    /\ IdleTheme
    /\ IdleFin
    /\ IdleDl
    /\ IdleGui

\* `industries = load_industries()`: the same list in both runs
LoadIndustries ==
    /\ gpc = "industries"
    /\ nind = 0
    /\ ind = 0
    /\ \E n \in 1..MaxIndustries : nind' = n
    /\ UNCHANGED <<gpc, ind, best, run_count, total_count, summary, call,
                   hiSeen, hiFirst>>
    /\ UNCHANGED <<simVars, histVars, twinVars, restVars>>

\* one iteration of the inner loop on the database
EvaluateData ==
    \E w \in {RunBacktest(data, tech_entry, tech_exit)} : EvaluateWith(w)

\* the script is started again when its first run is over
RunAgain ==
    /\ pass = 1
    /\ gpc = "done"
    /\ pass' = 2
    /\ summary1' = summary
    /\ gpc' = "industries"
    /\ ind' = 0
    /\ best' = [entry |-> None, exit |-> None, win_rate |-> NaN]
    /\ run_count' = 0
    /\ total_count' = 0
    /\ summary' = <<>>
    /\ call' = NoPair
    /\ hiSeen' = NaN
    /\ hiFirst' = NoPair
    /\ tech_entry' = None
    /\ tech_exit' = None
    /\ UNCHANGED <<nind, data>>
    /\ UNCHANGED <<FEE_RATE, fscore, pc, scores, today, nrows, cash, pos,
                   buy_dt, results, histVars, twinVars, runVars, anaVars,
                   themeVars, finVars, dlVars, guiVars>>

NextTwice ==
    \/ LoadIndustries
    \/ (nind > 0 /\ BeginIndustry)
    \/ EvaluateData
    \/ AppendSummary
    \/ (nind > 0 /\ WriteReport)
    \/ RunAgain

SpecTwice == InitTwice /\ [][NextTwice]_vars

-----------------------------------------------------------------------------
(* ThemeTracker.get_bonus *)

Themes == {"AI", "EV", "bio"}
\* the number of times a theme was seen
HotVals == {0, 1, 3}
\* theme_hotness: a dict from some of the themes to their hotness
HotnessMaps == UNION {[ts -> HotVals] : ts \in SUBSET Themes}

\* the keyword_map the tracker is constructed with
KeywordMaps ==
    {[s \in {"2330", "2454", "3008", "9999"} |->
        CASE s = "2330" -> <<"AI", "EV">>
          [] s = "2454" -> <<"EV", "bio">>
          [] s = "3008" -> <<"bio">>
          [] OTHER -> <<>>]}
StockIds == {"2330", "2454", "3008", "9999", "1234"}

SetMax(S) == CHOOSE v \in S : \A u \in S : u <= v
SetMin(S) == CHOOSE v \in S : \A u \in S : v <= u

\* theme_hotness.get(theme, 0)
HotnessOf(theme_hotness, theme) ==
    IF theme \in DOMAIN theme_hotness THEN theme_hotness[theme] ELSE 0

\* normalized = (hotness - min_hot) / (max_hot - min_hot) * 100
Normalized(hotness, min_hot, max_hot) ==
    FMul(FDiv(Whole(hotness - min_hot), Whole(max_hot - min_hot)), Whole(100))

\* get_bonus(stock_id, theme_hotness) of a tracker holding the map km
GetBonus(km, stock_id, theme_hotness) ==
    IF stock_id \notin DOMAIN km THEN Whole(0)
    ELSE IF km[stock_id] = <<>> THEN Whole(0)
    ELSE IF DOMAIN theme_hotness = {} THEN Whole(0)
    ELSE LET related_themes == km[stock_id]
             all_hotness_values ==
                 {theme_hotness[t] : t \in DOMAIN theme_hotness}
             max_hot == SetMax(all_hotness_values)
             min_hot == SetMin(all_hotness_values)
         IN  IF max_hot = min_hot THEN Whole(0)
             ELSE Average([i \in 1..Len(related_themes) |->
                              Normalized(HotnessOf(theme_hotness,
                                                   related_themes[i]),
                                         min_hot, max_hot)])

\* the back-testing script and the price analyzers are not part of the run
IdleEngine ==
    /\ FEE_RATE = FEE_RATE_DEFAULT
    /\ tech_entry = None
    /\ tech_exit = None
    /\ fscore = 0
    /\ InitLocals
    /\ InitTwin
    /\ InitGrid
    /\ IdleRun
    /\ IdleAna

InitTheme ==
    /\ IdleEngine
    /\ IdleTwice
    /\ keyword_map \in KeywordMaps
    /\ bonus = NoCall
    /\ IdleFin
    /\ IdleDl
    /\ IdleGui

\* tracker.get_bonus(stock_id, theme_hotness)
CallGetBonus ==
    /\ bonus = NoCall
    /\ \E stock_id \in StockIds, theme_hotness \in HotnessMaps :
         bonus' = [fn |-> "get_bonus", stock_id |-> stock_id,
                   theme_hotness |-> theme_hotness,
                   ret |-> GetBonus(keyword_map, stock_id, theme_hotness)]
    /\ UNCHANGED keyword_map
    /\ UNCHANGED <<simVars, histVars, twinVars, gridVars, runVars, anaVars,
                   twiceVars, finVars, dlVars, guiVars>>

NextTheme == CallGetBonus

SpecTheme == InitTheme /\ [][NextTheme]_vars

\* the themes of the stock of the last call, none for an unknown stock
RelatedThemes ==
    IF bonus.stock_id \in DOMAIN keyword_map
    THEN {keyword_map[bonus.stock_id][i] :
              i \in 1..Len(keyword_map[bonus.stock_id])}
    ELSE {}

HotnessValues ==
    {bonus.theme_hotness[t] : t \in DOMAIN bonus.theme_hotness}

\* C24: get_bonus returns a score in [0, 100] for every stock and every
\* theme_hotness, a theme of the stock absent from theme_hotness included,
\* and returns 0.0 when the stock has no themes, theme_hotness is empty or
\* all hotness values are equal.
C24_Claim ==
    bonus.fn = "get_bonus" =>
        /\ InRange(bonus.ret)
        /\ (\/ RelatedThemes = {}
            \/ HotnessValues = {}
            \/ Cardinality(HotnessValues) = 1) => bonus.ret = Whole(0)

-----------------------------------------------------------------------------
(* FinancialAnalyzer of aa.py: get_financial_score *)

EPS_LIMIT == 8
REV_LIMIT == 24

\* Python's None where the code holds a float or a table
Missing == [none |-> TRUE]
\* the outcome of a call that raised ZeroDivisionError
ZeroDivisionError == [raised |-> "ZeroDivisionError"]

\* the EPS of the recent and of the previous four quarters
EpsRecent == {1, 5, 6}
EpsPrev == {-1, 4}
\* the monthly revenue of the last and of the previous twelve months
RevLast == {90, 110, 130}
RevPrev == {0, 100}
\* the latest stored price-earnings ratio, None when there is none
PerVals == {Missing, Whole(-10), Whole(0), Whole(10), Whole(20), Whole(40)}
\* the industry's average: absent, not a number, or a number
AvgPerVals == {Missing, [text |-> "-"], Whole(0), Whole(20)}

\* n rows, newest first: `recent` in the first half, `prev` in the second
Rows(n, recent, prev) ==
    Column([i \in 1..n |-> Whole(IF 2 * i <= n THEN recent ELSE prev)], n)

EpsTables ==
    {<<>>} \cup {Rows(EPS_LIMIT - 1, 5, 4)}
        \cup {Rows(EPS_LIMIT, r, q) : r \in EpsRecent, q \in EpsPrev}
RevTables ==
    {<<>>} \cup {Rows(REV_LIMIT, r, q) : r \in RevLast, q \in RevPrev}

Databases == [eps : EpsTables, revenue : RevTables, per : PerVals]

\* vals.iloc[lo - 1:hi].mean()
MeanOf(vals, lo, hi) == FDiv(SumAll(vals, lo, hi), Whole(hi - lo + 1))

\* _fetch_eps_history
FetchEpsHistory(db) ==
    IF Len(db.eps) < EPS_LIMIT THEN Missing
    ELSE IF FLe(MeanOf(db.eps, 5, 8), Whole(0)) THEN Missing
    ELSE db.eps

\* _fetch_annual_revenue
FetchAnnualRevenue(db) ==
    IF Len(db.revenue) < REV_LIMIT THEN Missing
    ELSE LET last_year_total == SumAll(db.revenue, 1, 12)
             prev_year_total == SumAll(db.revenue, 13, 24)
         IN  IF FLe(prev_year_total, Whole(0)) THEN Missing
             ELSE [last_year_revenue |-> last_year_total,
                   prev_year_revenue |-> prev_year_total]

\* the score of a growth rate that earns 100 points from `full` on
GrowthScore(last, prev, full) ==
    LET growth == IF prev # Whole(0)
                  THEN FDiv(FSub(last, prev), FAbs(prev))
                  ELSE Whole(0)
    IN  IF FLe(growth, Whole(0)) THEN Whole(0)
        ELSE IF FGe(growth, full) THEN Whole(100)
        ELSE FMul(FDiv(growth, full), Whole(100))

\* eps_score of get_financial_score
EpsScore(db) ==
    LET eps_series == FetchEpsHistory(db)
    IN  IF eps_series = Missing THEN Whole(0)
        ELSE GrowthScore(MeanOf(eps_series, 1, 4), MeanOf(eps_series, 5, 8),
                         Flt(1, 2))

\* rev_score of get_financial_score
RevScore(db) ==
    LET rev_df == FetchAnnualRevenue(db)
    IN  IF rev_df = Missing THEN Whole(0)
        ELSE GrowthScore(rev_df.last_year_revenue, rev_df.prev_year_revenue,
                         Flt(3, 10))

\* _calculate_per_score: info is the industry of the stock in stock_info,
\* avgs the average of that industry in industry_per
CalculatePerScore(db, info, avgs) ==
    IF db.per = Missing THEN Missing
    ELSE IF info = Missing THEN Missing
    ELSE IF avgs = Missing THEN Missing
    ELSE IF "text" \in DOMAIN avgs THEN Missing
    ELSE IF FLe(avgs, Whole(0)) THEN Missing
    ELSE LET ratio == FDiv(db.per, avgs)
         IN  IF ratio = Whole(0) THEN ZeroDivisionError
             ELSE FMul(PyMin(ratio, FDiv(Whole(1), ratio)), Whole(100))

\* get_financial_score: its sub-scores and what it returns or raises
GetFinancialScore(db, info, avgs) ==
    LET eps_score == EpsScore(db)
        rev_score == RevScore(db)
        per_score == CalculatePerScore(db, info, avgs)
    IN  [eps_score |-> eps_score, rev_score |-> rev_score,
         per_score |-> per_score,
         ret |-> IF per_score = ZeroDivisionError THEN ZeroDivisionError
                 ELSE IF per_score = Missing
                      THEN FDiv(FAdd(eps_score, rev_score), Whole(2))
                 ELSE FDiv(FAdd(FAdd(eps_score, rev_score), per_score),
                           Whole(3))]

\* FinancialAnalyzer(db_path): the database and the two tables it loads
InitFin ==
    /\ IdleEngine
    /\ IdleTwice
    /\ IdleTheme
    /\ fin_db \in Databases
    /\ stock_info \in {Missing, [industry |-> "semiconductor"]}
    /\ industry_per \in AvgPerVals
    /\ fin_call = NoCall
    /\ IdleDl
    /\ IdleGui

\* fin.get_financial_score(stock_id)
CallGetFinancialScore ==
    /\ fin_call = NoCall
    /\ \E out \in {GetFinancialScore(fin_db, stock_info, industry_per)} :
         fin_call' = [fn |-> "get_financial_score"] @@ out
    /\ UNCHANGED <<fin_db, stock_info, industry_per>>
    /\ UNCHANGED <<simVars, histVars, twinVars, gridVars, runVars, anaVars,
                   twiceVars, themeVars, dlVars,
                   guiVars>>

NextFin == CallGetFinancialScore

SpecFin == InitFin /\ [][NextFin]_vars

\* C25: for every stored price-earnings ratio, zero and negative ones
\* included, get_financial_score does not raise, its PER sub-score and its
\* final score lie in [0, 100], and the final score is the mean of the
\* EPS, revenue and PER sub-scores, over two when the PER sub-score is
\* missing.
C25_Claim ==
    fin_call.fn = "get_financial_score" =>
        /\ fin_call.ret # ZeroDivisionError
        /\ fin_call.per_score # Missing => InRange(fin_call.per_score)
        /\ InRange(fin_call.ret)
        /\ fin_call.ret =
               IF fin_call.per_score = Missing
               THEN FDiv(FAdd(fin_call.eps_score, fin_call.rev_score),
                         Whole(2))
               ELSE FDiv(FAdd(FAdd(fin_call.eps_score, fin_call.rev_score),
                              fin_call.per_score), Whole(3))

-----------------------------------------------------------------------------
(* TPExInstitutionalDownloader.download *)

\* the text of a numeric cell, one character per element
Cells == {<<"1", ",", "2", "0">>, <<"7">>, <<"-", "5">>, <<"-", "-">>, <<>>}
\* the columns of the table: too few for the renamed columns, or all
TableCols == {3, 23}
\* what a request meets: the server does not answer, the status is an
\* error, the answer holds no table, or it holds a table whose numeric
\* cells read `cell`; disk tells whether the CSV file can be written
Responses ==
    [kind : {"timeout", "http_error", "no_table"}, ncols : {0},
     cell : {<<>>}, disk : {TRUE}]
    \cup [kind : {"table"}, ncols : TableCols, cell : Cells, disk : BOOLEAN]

Digits == {"0", "1", "2", "3", "4", "5", "6", "7", "8", "9"}
DigitVal(c) ==
    CASE c = "0" -> 0 [] c = "1" -> 1 [] c = "2" -> 2 [] c = "3" -> 3
      [] c = "4" -> 4 [] c = "5" -> 5 [] c = "6" -> 6 [] c = "7" -> 7
      [] c = "8" -> 8 [] c = "9" -> 9

\* .replace(',', '', regex=True)
NotComma(c) == c # ","
StripCommas(cell) == SelectSeq(cell, NotComma)

\* the value of the digits cs[1..n]
RECURSIVE Decimal(_, _)
Decimal(cs, n) ==
    IF n = 0 THEN 0 ELSE 10 * Decimal(cs, n - 1) + DigitVal(cs[n])

AllDigits(cs) == Len(cs) > 0 /\ \A j \in 1..Len(cs) : cs[j] \in Digits

\* pd.to_numeric(errors='coerce') on a whole-number text
ToNumeric(cs) ==
    IF AllDigits(cs) THEN Num(Decimal(cs, Len(cs)))
    ELSE IF Len(cs) > 1 /\ cs[1] = "-" /\ AllDigits(Tail(cs))
         THEN Num(-Decimal(Tail(cs), Len(cs) - 1))
    ELSE NaN

\* clean_data on a numeric cell: commas removed, non-numbers become 0
CleanData(cell) ==
    LET v == ToNumeric(StripCommas(cell))
    IN  IF v.nan THEN 0 ELSE v.val

\* the attempt raises inside the try block
Fails(resp) == resp.kind # "table" \/ resp.ncols < 23 \/ ~resp.disk

\* the frame download returns for the response
DownloadedFrame(resp) == [market |-> "TPEX", value |-> CleanData(resp.cell)]

\* mutant: one attempt more
RetryRange_Four == Range(0, 4, 1)

\* range(3)
RetryRange == Range(0, 3, 1)

ValueError == [raised |-> "ValueError"]

\* downloader.download(roc_date) is called
InitDl ==
    /\ IdleEngine
    /\ IdleTwice
    /\ IdleTheme
    /\ IdleFin
    /\ dl_pc = "loop"
    /\ dl_i = 0
    /\ dl_log = <<>>
    /\ dl_ret = NoCall
    /\ IdleGui

\* the try block of one iteration: the request and the handling of its
\* response, up to the return statement or to the exception
TryDownload ==
    /\ dl_pc = "loop"
    /\ dl_i < Len(RetryRange)
    /\ \E resp \in Responses :
         /\ dl_log' = Append(dl_log, resp)
         /\ IF Fails(resp)
            THEN dl_pc' = "except" /\ dl_ret' = dl_ret
            ELSE dl_pc' = "returned" /\ dl_ret' = DownloadedFrame(resp)
    /\ UNCHANGED dl_i
    /\ UNCHANGED <<simVars, histVars, twinVars, gridVars, runVars, anaVars,
                   twiceVars, themeVars, finVars,
                   guiVars>>

\* the except block: the message, time.sleep(1), the next iteration
SleepAndRetry ==
    /\ dl_pc = "except"
    /\ dl_i' = dl_i + 1
    /\ dl_pc' = "loop"
    /\ UNCHANGED <<dl_log, dl_ret>>
    /\ UNCHANGED <<simVars, histVars, twinVars, gridVars, runVars, anaVars,
                   twiceVars, themeVars, finVars,
                   guiVars>>

\* the loop is exhausted: raise ValueError
RaiseValueError ==
    /\ dl_pc = "loop"
    /\ dl_i >= Len(RetryRange)
    /\ dl_pc' = "raised"
    /\ dl_ret' = ValueError
    /\ UNCHANGED <<dl_i, dl_log>>
    /\ UNCHANGED <<simVars, histVars, twinVars, gridVars, runVars, anaVars,
                   twiceVars, themeVars, finVars,
                   guiVars>>

NextDl == TryDownload \/ SleepAndRetry \/ RaiseValueError

SpecDl == InitDl /\ [][NextDl]_vars

\* the scheduler runs the thread of the call
FairDl == SpecDl /\ WF_vars(NextDl)

\* at most 3 requests; a return gives the cleaned table of the last
\* request, the first that did not fail; ValueError is raised after three
\* failed requests
C26_State ==
    /\ Len(dl_log) <= 3
    /\ \A j \in 1..(Len(dl_log) - 1) : Fails(dl_log[j])
    /\ dl_pc = "returned" =>
           /\ ~Fails(dl_log[Len(dl_log)])
           /\ dl_ret = [market |-> "TPEX",
                        value |-> CleanData(dl_log[Len(dl_log)].cell)]
    /\ dl_pc = "raised" =>
           /\ Len(dl_log) = 3
           /\ Fails(dl_log[3])
           /\ dl_ret = ValueError

\* a request is the first or follows a failed one, and none follows the
\* return or the raise
C26_Step ==
    dl_log' # dl_log =>
        /\ dl_pc \notin {"returned", "raised"}
        /\ Len(dl_log') = Len(dl_log) + 1
        /\ SubSeq(dl_log', 1, Len(dl_log)) = dl_log
        /\ dl_log # <<>> => Fails(dl_log[Len(dl_log)])

\* C26: download makes at most 3 requests, returns the cleaned table on
\* the first request that succeeds and makes no further one, makes a
\* further request only after a failed one, raises ValueError after 3
\* failed requests, and always returns or raises.
C26_Theorem ==
    /\ []C26_State
    /\ [][C26_Step]_vars
    /\ <>(dl_pc \in {"returned", "raised"})

\* the third request returned a table whose cells hold a thousands comma
C26_Witness ==
    /\ dl_pc = "returned"
    /\ Len(dl_log) = 3
    /\ dl_ret.value = 120

-----------------------------------------------------------------------------
(* The two technical scores *)

\* the score get_technical_score returns when the latest row of df_ind
\* holds the indicator values of r
ScoreOfLatest(r) ==
    GetTechnicalScore([none |-> FALSE,
                       rows |-> <<[RSI |-> r.RSI, MACD_diff |-> r.MACD_diff,
                                   KD_K |-> r.KD_K, KD_D |-> r.KD_D]>>]).ret

\* C27: on every day, the tech_score of run_backtest equals the score
\* get_technical_score computes from the day's RSI, MACD_diff, KD_K and
\* KD_D, whichever of the four values are undefined.
C27_Claim ==
    tout.fn = "run_backtest" =>
        \A i \in 1..Len(tout.df) :
            tout.df[i].tech_score = ScoreOfLatest(tout.df[i])

-----------------------------------------------------------------------------
(* The entry and exit signals of one day *)

\* financial scores around the two thresholds
FinScoreProbes == {-10, 0, 1, 50, 51, 69, 70, 100}

\* pairs of the grid: the first, the last, the widest and two narrow ones
ProbePairs == {<<40, 20>>, <<45, 40>>, <<60, 55>>, <<80, 20>>, <<80, 75>>}

\* the score of the last day read gives not both signals, for the pairs of
\* the grid and any financial score
C28_Exclusive ==
    scores # <<>> =>
        /\ \A p \in ProbePairs, fs \in FinScoreProbes :
               ~(Entry(todayScore, p[1], fs) /\ Exit(todayScore, p[2], fs))
        /\ tech_entry > tech_exit =>
               ~(Entry(todayScore, tech_entry, fscore)
                   /\ Exit(todayScore, tech_exit, fscore))

\* a day makes at most one transition, and a sale comes on a later day than
\* the purchase
C28_OneTransition ==
    DayTaken =>
        /\ (IsZero(pos) /\ IsZero(pos')) => (cash' = cash /\ buy_dt' = buy_dt)
        /\ (IsPos(pos) /\ IsPos(pos')) => (pos' = pos /\ buy_dt' = buy_dt)
        /\ (IsPos(pos) /\ IsZero(pos')) => buy_dt < today'.date

\* C28: for every pair of the grid and every financial score the entry and
\* exit signals of a day are never both true; a day makes at most one
\* transition, and a position opened on a day is not closed on that day.
C28_Theorem == []C28_Exclusive /\ [][C28_OneTransition]_vars

\* a position bought on a grid pair was sold by the exit signal of the
\* purchase day, one row later
C28_Witness ==
    /\ pc = "loop"
    /\ tech_entry > tech_exit
    /\ branch = "sell"
    /\ nrows >= 3
    /\ Len(fills) = 2
    /\ Exit(prevScore, tech_exit, fscore)
    /\ today.date - buy_dt < MAX_HOLD_DAYS

-----------------------------------------------------------------------------
(* Securities whose financial score is between the thresholds *)

MidFinScore(fs) == 0 < fs /\ fs < FIN_ENTRY_THRESHOLD

\* a financial score strictly between 0 and 70 gives no entry signal, the
\* security holds no shares on any day, and its profit is 0 percent
C29_NoPosition ==
    /\ scores # <<>> =>
           \A p \in ProbePairs, fs \in FinScoreProbes :
               MidFinScore(fs) => ~Entry(todayScore, p[1], fs)
    /\ MidFinScore(fscore) =>
           /\ IsZero(pos)
           /\ buy_dt = None
           /\ fills = <<>>
           /\ cash = Amt(INITIAL_CAPITAL_PER_STK, 1)
           /\ (pc = "done" /\ results # <<>>) =>
                  /\ ~results[Len(results)].nan
                  /\ PercentE6(results[Len(results)]) = 0

\* C29: a security whose financial score lies strictly between 0 and 70
\* opens no position on any day, for any pair of the grid, and the profit
\* appended for it is exactly 0 percent.
C29_Theorem == []C29_NoPosition

\* the simulation of such a security is over, and on a day with a valid
\* open the score of the day before had reached tech_entry
C29_Witness ==
    /\ pc = "done"
    /\ MidFinScore(fscore)
    /\ tech_entry > tech_exit
    /\ results # <<>>
    /\ nrows >= 2
    /\ FGe(prevScore, Whole(tech_entry))
    /\ ValidPrice(today.open)

-----------------------------------------------------------------------------
(* The fetch button of the GUI: on_fetch_clicked and fetch_all_task *)

\* len(SCRIPTS)
NumScripts == 5
\* clicks on the fetch button
MaxClicks == 2

\* texts the user types into the start date field
DateTexts ==
    {<<"2", "0", "2", "5", "0", "5", "0", "1">>,
     <<" ", "2", "0", "2", "5", "0", "5", "0", "1", " ">>,
     <<"2", "0", "2", "5", "0", "2", "3", "0">>,
     <<"2", "0", "2", "5", "-", "5", "-", "1">>,
     <<"2", "0", "2", "5">>,
     <<>>}

\* str.strip() for blanks
RECURSIVE LStrip(_)
LStrip(t) == IF t # <<>> /\ Head(t) = " " THEN LStrip(Tail(t)) ELSE t
RECURSIVE RStrip(_)
RStrip(t) ==
    IF t # <<>> /\ t[Len(t)] = " " THEN RStrip(SubSeq(t, 1, Len(t) - 1))
    ELSE t
Strip(t) == RStrip(LStrip(t))

IsLeap(y) == (y % 4 = 0 /\ y % 100 # 0) \/ y % 400 = 0
DaysIn(y, m) ==
    IF m = 2 THEN (IF IsLeap(y) THEN 29 ELSE 28)
    ELSE IF m \in {4, 6, 9, 11} THEN 30 ELSE 31

\* datetime.strptime(start_str, "%Y%m%d") of eight digits does not raise
ParsesAsDate(t) ==
    LET y == Decimal(SubSeq(t, 1, 4), 4)
        m == Decimal(SubSeq(t, 5, 6), 2)
        d == Decimal(SubSeq(t, 7, 8), 2)
    IN  /\ y >= 1
        /\ m \in 1..12
        /\ d \in 1..DaysIn(y, m)

\* the checks of the start date pass
ValidStart(text) ==
    LET start_str == Strip(text)
    IN  /\ Len(start_str) = 8
        /\ AllDigits(start_str)
        /\ ParsesAsDate(start_str)

\* what running one script meets
ScriptOutcomes == {"missing", "launch_error", "exit_0", "exit_1"}

\* the window is shown: the button is enabled, no thread was started
InitGui ==
    /\ IdleEngine
    /\ IdleTwice
    /\ IdleTheme
    /\ IdleFin
    /\ IdleDl
    /\ btn_fetch = TRUE
    /\ edit_date \in DateTexts
    /\ workers = <<>>
    /\ timers = 0

GuiRest ==
    UNCHANGED <<simVars, histVars, twinVars, gridVars, runVars, anaVars,
                twiceVars, themeVars, finVars, dlVars>>

\* the user types another start date
EditDate ==
    /\ \E text \in DateTexts : edit_date' = text /\ text # edit_date
    /\ UNCHANGED <<btn_fetch, workers, timers>>
    /\ GuiRest

\* on_fetch_clicked: a disabled button emits no click
OnFetchClicked ==
    /\ btn_fetch
    /\ Len(workers) < MaxClicks
    /\ btn_fetch' = FALSE
    /\ workers' = Append(workers, [pc |-> "tables", script |-> 0,
                                    path |-> "running"])
    /\ UNCHANGED <<edit_date, timers>>
    /\ GuiRest

\* the worker w returns after QTimer.singleShot(0, ...setEnabled(True))
PostAndReturn(w, path) ==
    /\ workers' = [workers EXCEPT ![w] = [pc |-> "returned", script |-> @.script,
                                          path |-> path]]
    /\ timers' = timers + 1

\* A) the tables are created, or the exception is reported
EnsureTables(w) ==
    /\ workers[w].pc = "tables"
    /\ \E ok \in BOOLEAN :
         IF ok
         THEN /\ workers' = [workers EXCEPT ![w].pc = "date"]
              /\ UNCHANGED timers
         ELSE PostAndReturn(w, "table_failure")
    /\ UNCHANGED <<btn_fetch, edit_date>>
    /\ GuiRest

\* B) the start date is read from the field and checked
CheckDate(w) ==
    /\ workers[w].pc = "date"
    /\ IF ValidStart(edit_date)
       THEN /\ workers' = [workers EXCEPT ![w] = [pc |-> "scripts", script |-> 1,
                                                 path |-> @.path]]
            /\ UNCHANGED timers
       ELSE PostAndReturn(w, "invalid_date")
    /\ UNCHANGED <<btn_fetch, edit_date>>
    /\ GuiRest

\* C) one iteration of `for script in SCRIPTS`
RunScript(w) ==
    /\ workers[w].pc = "scripts"
    /\ workers[w].script <= NumScripts
    /\ \E out \in ScriptOutcomes :
         workers' =
             [workers EXCEPT ![w] =
                 CASE out = "missing" ->
                        [pc |-> "after_loop", script |-> @.script,
                         path |-> "missing_script"]
                   [] out = "launch_error" ->
                        [pc |-> "raised", script |-> @.script,
                         path |-> "launch_failure"]
                   [] out = "exit_1" ->
                        [pc |-> "after_loop", script |-> @.script,
                         path |-> "failing_script"]
                   [] OTHER ->
                        IF @.script = NumScripts
                        THEN [pc |-> "after_loop", script |-> @.script,
                              path |-> "all_succeeded"]
                        ELSE [pc |-> "scripts", script |-> @.script + 1,
                              path |-> @.path]]
    /\ UNCHANGED <<btn_fetch, edit_date, timers>>
    /\ GuiRest

\* the statement after the loop
AfterLoop(w) ==
    /\ workers[w].pc = "after_loop"
    /\ PostAndReturn(w, workers[w].path)
    /\ UNCHANGED <<btn_fetch, edit_date>>
    /\ GuiRest

\* the event loop runs a posted callback: btn_fetch.setEnabled(True)
RunCallback ==
    /\ timers > 0
    /\ timers' = timers - 1
    /\ btn_fetch' = TRUE
    /\ UNCHANGED <<edit_date, workers>>
    /\ GuiRest

WorkerStep(w) ==
    EnsureTables(w) \/ CheckDate(w) \/ RunScript(w) \/ AfterLoop(w)

EnsureTablesStep == \E w \in 1..Len(workers) : EnsureTables(w)
CheckDateStep == \E w \in 1..Len(workers) : CheckDate(w)
RunScriptStep == \E w \in 1..Len(workers) : RunScript(w)
AfterLoopStep == \E w \in 1..Len(workers) : AfterLoop(w)

NextGui ==
    \/ EditDate
    \/ OnFetchClicked
    \/ EnsureTablesStep
    \/ CheckDateStep
    \/ RunScriptStep
    \/ AfterLoopStep
    \/ RunCallback

SpecGui == InitGui /\ [][NextGui]_vars

\* every started thread is scheduled, every script ends, and the event loop
\* of the main thread keeps running
FairGui ==
    /\ SpecGui
    /\ \A w \in 1..MaxClicks :
           WF_vars(w \in 1..Len(workers) /\ WorkerStep(w))
    /\ WF_vars(RunCallback)

\* the workers inside fetch_all_task
Running == {w \in 1..Len(workers) : workers[w].pc \notin {"returned", "raised"}}

\* C30: every click that starts fetch_all_task is eventually followed by
\* the button being enabled again, on every path of the task, and no two
\* fetch_all_task threads run at the same time.
C30_Claim ==
    /\ [](~btn_fetch => <>btn_fetch)
    /\ [](Cardinality(Running) <= 1)

====
